---------------------------- MODULE Spec2Model ----------------------------
(***************************************************************************)
(* valence-extra: the BVH index (crates/bvh), the swept-AABB narrowphase   *)
(* (crates/physics/src/utils.rs) and the physics step                      *)
(* (crates/physics/src/lib.rs).                                            *)
(*                                                                         *)
(* Numbers.  The code computes in f32/f64.  The model computes exactly:    *)
(* positions and box corners are integers, times of impact are fractions   *)
(* compared by cross-multiplication, and the two float infinities are      *)
(* explicit values.  Rounding of the floats is not modelled.               *)
(***************************************************************************)
EXTENDS Integers, Sequences, FiniteSets, TLC

VARIABLES
    bvhs,       \* BvhResource.bvhs: index id -> tree
    built,      \* per index id, the entry list of the latest build (history)
    out,        \* the latest query made on an index and what it returned
    swIn,       \* arguments of the latest swept_aabb_collide call
    swOut,      \* its result
    ents,       \* the world's entities: id -> components
    blocks,     \* ChunkLayer: the cells that hold a block with a full-cube collider
    order,      \* the order the schedule gives physics_system and rebuild_bvh
    pc,         \* how far the current tick has run
    blockEvents,   \* EntityBlockCollisionEvents of the latest physics_system run
    entityEvents,  \* EntityEntityCollisionEvents of the latest physics_system run
    passes,     \* per entity, resolution passes begun in the latest run (history)
    sched,      \* the systems that hold the BvhResource and what they do with it
    stops,      \* a StopOnBlockCollision under construction and the latest answer
    chat,       \* the ChatChannels resource and the latest call on it
    combat,     \* the players in combat, the clock and the latest run of combat_system
    build,      \* the builders, the chunk layer and the last build_system run
    talk,       \* the chatting clients, their channels and the latest run of chat_system
    hurt,       \* the entities damage_system works on and the latest run of it
    fall        \* the entity fall_damage_system works on and the latest run of it

bvhVars   == <<bvhs, built, out>>
sweptVars == <<swIn, swOut>>
physVars  == <<ents, blocks, order, pc, blockEvents, entityEvents, passes>>
schedVars == <<sched>>
stopVars  == <<stops>>
chatVars  == <<chat>>
combatVars == <<combat>>
buildVars == <<build>>
talkVars  == <<talk>>
hurtVars  == <<hurt>>
fallVars  == <<fall>>
vars      == <<bvhs, built, out, swIn, swOut,
               ents, blocks, order, pc, blockEvents, entityEvents, passes, sched,
               stops, chat, combat, build, talk, hurt, fall>>

-----------------------------------------------------------------------------
(* Option<T> *)
None    == [some |-> FALSE]
Some(x) == [some |-> TRUE, val |-> x]

Axes == 1 .. 3

Max2(a, b) == IF a >= b THEN a ELSE b
Min2(a, b) == IF a <= b THEN a ELSE b

-----------------------------------------------------------------------------
(* valence::math::Aabb and the AabbExt helpers *)

Aabb(lo, hi) == [min |-> lo, max |-> hi]

ZeroBox == Aabb(<<0, 0, 0>>, <<0, 0, 0>>)

translate(box, t) ==
    Aabb([i \in Axes |-> box.min[i] + t[i]], [i \in Axes |-> box.max[i] + t[i]])

width(box, i) == box.max[i] - box.min[i]

(* A zero-extent or inverted box: as a query it overlaps nothing. *)
IsDegenerate(box) == \E i \in Axes : box.min[i] >= box.max[i]

(* box.overlaps(entryBox): the closed intersection test, false for a       *)
(* degenerate query box.                                                   *)
Overlaps(target, box) ==
    /\ ~IsDegenerate(target)
    /\ \A i \in Axes : target.max[i] >= box.min[i] /\ box.max[i] >= target.min[i]

(* Squared distance from a point to a box. *)
dist2(box, p) ==
    LET d(i) == Max2(0, Max2(box.min[i] - p[i], p[i] - box.max[i]))
    IN  d(1) * d(1) + d(2) * d(2) + d(3) * d(3)

BoxUnion(a, b) ==
    Aabb([i \in Axes |-> Min2(a.min[i], b.min[i])],
         [i \in Axes |-> Max2(a.max[i], b.max[i])])

-----------------------------------------------------------------------------
(* The bulk-built tree: crate::Bvh<T>, Node::Leaf / Node::Internal *)

LeafCap == 1

EntityBvhEntry(e, hb) == [entity |-> e, hitbox |-> hb]

Leaf(box, elems)        == [kind |-> "leaf", aabb |-> box, elems |-> elems]
Internal(box, l, r)     == [kind |-> "internal", aabb |-> box, left |-> l, right |-> r]

(* Bvh::default(): no entry; the root is a leaf over no element. *)
BvhDefault == Leaf(ZeroBox, <<>>)

RECURSIVE Enclose(_)
Enclose(es) ==
    IF Len(es) = 1 THEN es[1].hitbox
    ELSE BoxUnion(es[1].hitbox, Enclose(Tail(es)))

(* The axis of greatest extent, the lowest one among equals. *)
SplitAxis(box) ==
    CHOOSE i \in Axes :
        /\ \A j \in Axes : width(box, i) >= width(box, j)
        /\ \A j \in Axes : j < i => width(box, j) < width(box, i)

Center2(e, ax) == e.hitbox.min[ax] + e.hitbox.max[ax]

RECURSIVE InsertBy(_, _, _)
InsertBy(e, sorted, ax) ==
    IF sorted = <<>> THEN <<e>>
    ELSE IF Center2(e, ax) < Center2(sorted[1], ax) THEN <<e>> \o sorted
    ELSE <<sorted[1]>> \o InsertBy(e, Tail(sorted), ax)

(* Stable sort of the entries by their centre along ax. *)
RECURSIVE SortBy(_, _)
SortBy(es, ax) ==
    IF es = <<>> THEN <<>>
    ELSE InsertBy(es[Len(es)], SortBy(SubSeq(es, 1, Len(es) - 1), ax), ax)

(* crate::Bvh::build: median split along the axis of greatest extent; a    *)
(* branch ends in a leaf at LeafCap entries or when a split separates      *)
(* nothing.                                                                *)
RECURSIVE BvhBuild(_)
BvhBuild(es) ==
    IF es = <<>> THEN BvhDefault
    ELSE LET box    == Enclose(es)
             ax     == SplitAxis(box)
             sorted == SortBy(es, ax)
             mid    == Len(es) \div 2
         IN  IF \/ Len(es) <= LeafCap
                \/ Center2(sorted[1], ax) = Center2(sorted[Len(es)], ax)
             THEN Leaf(box, es)
             ELSE Internal(box,
                           BvhBuild(SubSeq(sorted, 1, mid)),
                           BvhBuild(SubSeq(sorted, mid + 1, Len(es))))

(* crate::Bvh::range: depth first, a subtree whose box misses the target   *)
(* is pruned, a leaf's entries are tested one by one.                      *)
RECURSIVE BvhRange(_, _)
BvhRange(node, target) ==
    IF node.kind = "leaf"
    THEN SelectSeq(node.elems, LAMBDA e : Overlaps(target, e.hitbox))
    ELSE IF ~Overlaps(target, node.aabb) THEN <<>>
    ELSE BvhRange(node.left, target) \o BvhRange(node.right, target)

(* Bvh::root and Node::children *)
root(tree)     == tree
children(node) == <<node.left, node.right>>


-----------------------------------------------------------------------------
(* crates/physics/src/utils.rs: swept_aabb_collide *)

(* An f64 time: a fraction n/d with d > 0, or one of the two infinities. *)
Fin(n, d)    == [k |-> "fin", n |-> n, d |-> d]
NEG_INFINITY == [k |-> "ninf"]
POS_INFINITY == [k |-> "pinf"]

Zero == Fin(0, 1)
One  == Fin(1, 1)

TLt(a, b) ==
    CASE a.k = "pinf" -> FALSE
      [] b.k = "ninf" -> FALSE
      [] a.k = "ninf" -> TRUE
      [] b.k = "pinf" -> TRUE
      [] OTHER        -> a.n * b.d < b.n * a.d

TEq(a, b) ==
    IF a.k = "fin" /\ b.k = "fin" THEN a.n * b.d = b.n * a.d ELSE a.k = b.k

TGt(a, b) == TLt(b, a)

(* f64::max and f64::min *)
TMax(a, b) == IF TLt(a, b) THEN b ELSE a
TMin(a, b) == IF TLt(b, a) THEN b ELSE a

(* fn time(x, y) *)
time(x, y) ==
    IF y # 0 THEN (IF y > 0 THEN Fin(x, y) ELSE Fin(-x, -y))
    ELSE IF x > 0 THEN POS_INFINITY
    ELSE NEG_INFINITY

(* The early return of a zero-velocity axis: the boxes are apart on it. *)
AxisApart(hb1, hb2, i) == hb1.max[i] < hb2.min[i] \/ hb1.min[i] > hb2.max[i]

(* The entry of an axis with a resting box taken as the start of the tick. *)
axis_entry_at_rest_now(hb1, velocity, hb2, i) ==
    IF velocity[i] # 0
    THEN time(IF velocity[i] > 0 THEN hb2.min[i] - hb1.max[i]
                                 ELSE hb2.max[i] - hb1.min[i],
              velocity[i])
    ELSE Zero

(* x_entry, y_entry, z_entry (past the early return) *)
axis_entry(hb1, velocity, hb2, i) ==
    IF velocity[i] # 0
    THEN time(IF velocity[i] > 0 THEN hb2.min[i] - hb1.max[i]
                                 ELSE hb2.max[i] - hb1.min[i],
              velocity[i])
    ELSE NEG_INFINITY

(* x_exit, y_exit, z_exit *)
axis_exit(hb1, velocity, hb2, i) ==
    IF velocity[i] # 0
    THEN time(IF velocity[i] > 0 THEN hb2.max[i] - hb1.min[i]
                                 ELSE hb2.min[i] - hb1.max[i],
              velocity[i])
    ELSE POS_INFINITY

(* The test with || in place of &&. *)
AnyNegative(e) == \E i \in Axes : TLt(e[i], Zero)

(* x_entry < 0.0 && y_entry < 0.0 && z_entry < 0.0 *)
AllNegative(e) == \A i \in Axes : TLt(e[i], Zero)

(* x_entry > 1.0 || y_entry > 1.0 || z_entry > 1.0 *)
BeyondTick(e) == \E i \in Axes : TGt(e[i], One)

(* A normal given to every axis that moves, controlling or not. *)
FaceNormalOfMoving(entry, e, v) ==
    IF v # 0 THEN Some(v <= 0) ELSE None

(* nx, ny, nz *)
FaceNormal(entry, e, v) ==
    IF TEq(entry, e) THEN Some(v <= 0) ELSE None

swept_aabb_collide(hb1, velocity, hb2) ==
    IF \E i \in Axes : velocity[i] = 0 /\ AxisApart(hb1, hb2, i) THEN None
    ELSE LET e  == [i \in Axes |-> axis_entry(hb1, velocity, hb2, i)]
             x  == [i \in Axes |-> axis_exit(hb1, velocity, hb2, i)]
             entry == TMax(TMax(e[1], e[2]), e[3])
             exit  == TMin(TMin(x[1], x[2]), x[3])
         IN  IF AllNegative(e) THEN None
             ELSE IF BeyondTick(e) THEN None
             ELSE IF TGt(entry, exit) THEN None
             ELSE Some([entry_time     |-> entry,
                        face_direction |->
                            [i \in Axes |-> FaceNormal(entry, e[i], velocity[i])]])

-----------------------------------------------------------------------------
(* crates/bvh/src/query/closest.rs *)

(* f64::INFINITY as a squared distance: no squared distance is negative. *)
INFINITY == -1

FGt(d, m) == m # INFINITY /\ (d = INFINITY \/ d > m)
FLt(d, m) == d # INFINITY /\ (m = INFINITY \/ d < m)

(* leaf.iter().map(..).min_by_key(..): the first entry of least distance,  *)
(* None for a leaf without entries.                                        *)
LeafMin(elems, target) ==
    IF elems = <<>> THEN None
    ELSE LET d(i) == dist2(elems[i].hitbox, target)
             best == CHOOSE i \in 1 .. Len(elems) :
                        /\ \A j \in 1 .. Len(elems) : d(i) <= d(j)
                        /\ \A j \in 1 .. (i - 1) : d(j) > d(i)
         IN  Some([elem |-> elems[best], dist2 |-> d(best)])

(* heap.pop() on BinaryHeap<Reverse<NodeOrd>>: an element of least key.    *)
(* Which of several equal keys comes out is the heap's business: tie       *)
(* names the two extremes.                                                 *)
PopIndex(heap, tie) ==
    CHOOSE k \in 1 .. Len(heap) :
        /\ \A j \in 1 .. Len(heap) : heap[k].by <= heap[j].by
        /\ \A j \in 1 .. Len(heap) :
              (heap[j].by = heap[k].by /\ j # k) =>
                  IF tie = "first" THEN j > k ELSE j < k

RemoveAt(s, k) == SubSeq(s, 1, k - 1) \o SubSeq(s, k + 1, Len(s))

(* A visit that takes a leaf's nearest entry without comparing it to the   *)
(* best one so far.                                                        *)
VisitChildOverwrite(child, st, target) ==
    IF child.kind = "internal"
    THEN [st EXCEPT !.heap = Append(@, [node |-> child,
                                        by   |-> dist2(child.aabb, target)])]
    ELSE LET m == LeafMin(child.elems, target)
         IN  IF ~m.some THEN st
             ELSE [st EXCEPT !.min_dist2 = m.val.dist2,
                             !.min_node  = Some(m.val.elem)]

(* One child of the popped node: an internal child is pushed with its      *)
(* lower bound, a leaf child is scanned.                                   *)
VisitChild(child, st, target) ==
    IF child.kind = "internal"
    THEN [st EXCEPT !.heap = Append(@, [node |-> child,
                                        by   |-> dist2(child.aabb, target)])]
    ELSE LET m == LeafMin(child.elems, target)
         IN  IF ~m.some THEN st
             ELSE IF FLt(m.val.dist2, st.min_dist2)
                  THEN [st EXCEPT !.min_dist2 = m.val.dist2,
                                  !.min_node  = Some(m.val.elem)]
                  ELSE st

RECURSIVE ClosestLoop(_, _, _)
ClosestLoop(st, target, tie) ==
    IF st.heap = <<>> THEN st
    ELSE LET k    == PopIndex(st.heap, tie)
             on   == st.heap[k].node
             rest == [st EXCEPT !.heap = RemoveAt(@, k)]
         IN  IF FGt(dist2(on.aabb, target), st.min_dist2) THEN rest
             ELSE LET ch == children(on)
                      s1 == VisitChild(ch[1], rest, target)
                      s2 == VisitChild(ch[2], s1, target)
                  IN  ClosestLoop(s2, target, tie)

(* Bvh::get_closest with get_aabb = |entry| entry.hitbox *)
get_closest(tree, target, tie) ==
    LET on == root(tree)
    IN  IF on.kind = "leaf" THEN LeafMin(on.elems, target)
        ELSE LET st == ClosestLoop([heap      |-> <<[node |-> on, by |-> 0]>>,
                                    min_dist2 |-> INFINITY,
                                    min_node  |-> None],
                                   target, tie)
             IN  IF st.min_node.some
                 THEN Some([elem |-> st.min_node.val, dist2 |-> st.min_dist2])
                 ELSE None

-----------------------------------------------------------------------------
(* crates/bvh/src/bvh_resource.rs *)

ENTITY_ENTITY_BVH_IDX == 0
ENTITY_BLOCK_BVH_IDX  == 1

(* impl Index<u64> for BvhResource: self.bvhs.get(&index).unwrap() *)
Index(m, index) ==
    IF index \in DOMAIN m THEN [panic |-> FALSE, val |-> m[index]]
    ELSE [panic |-> TRUE]

(* BvhResource::get_mut: self.bvhs.get_mut(&index) *)
get_mut(m, index) == IF index \in DOMAIN m THEN Some(m[index]) ELSE None

(* A registry whose ids start at 1. *)
with_bvhs_from_one(num) == [i \in 1 .. num |-> BvhDefault]

(* BvhResource::with_bvhs(num) *)
with_bvhs(num) == [i \in 0 .. (num - 1) |-> BvhDefault]

(* A build that leaves the tree alone when it is given no entry. *)
Bvh_build_skip_empty(old, entries) ==
    IF entries = <<>> THEN old ELSE BvhBuild(entries)

(* Bvh::build: the new tree replaces the old one. *)
Bvh_build(old, entries) == BvhBuild(entries)

(* Bvh::clear *)
Bvh_clear(old) == BvhDefault

(* A range query whose box test is strict: boxes that only touch are       *)
(* missed.                                                                 *)
RECURSIVE RangeStrict(_, _)
RangeStrict(node, target) ==
    LET hit(box) == /\ ~IsDegenerate(target)
                    /\ \A i \in Axes : target.max[i] > box.min[i] /\ box.max[i] > target.min[i]
    IN  IF node.kind = "leaf" THEN SelectSeq(node.elems, LAMBDA e : hit(e.hitbox))
        ELSE IF ~hit(node.aabb) THEN <<>>
        ELSE RangeStrict(node.left, target) \o RangeStrict(node.right, target)

(* Bvh::get_in_range *)
get_in_range(tree, target) == BvhRange(tree, target)

-----------------------------------------------------------------------------
(* crates/physics/src/lib.rs                                               *)
(*                                                                         *)
(* Units.  A world coordinate is a whole number of 1/BlockSize blocks.  A  *)
(* velocity is stored as the displacement of one tick divided by EpsDen,   *)
(* so that velocity * delta_seconds is velocity * EpsDen and 0.01 of a     *)
(* tick's displacement is a whole number.  delta_seconds is the same in    *)
(* every tick.                                                             *)

BlockSize == 25 * 100

(* collision.entry_time -= 0.01 *)
EpsDen == 100

(* for _ in 0..3 *)
MaxPasses == 3

(* Division rounding towards zero, b > 0. *)
Trunc(a, b) == IF a >= 0 THEN a \div b ELSE -((-a) \div b)

(* f64 as i32 of a world coordinate. *)
as_i32(x) == Trunc(x, BlockSize)

Abs(x) == IF x < 0 THEN -x ELSE x

VAdd(a, b) == [i \in Axes |-> a[i] + b[i]]

ZERO == <<0, 0, 0>>

CeilSqrt(n) == CHOOSE r \in 0 .. n : r * r >= n /\ (r = 0 \/ (r - 1) * (r - 1) < n)

(* Vec3::clamp_length(0.0, max); the shortened vector is rounded towards   *)
(* zero.                                                                   *)
clamp_length(v, max) ==
    LET length_sq == v[1] * v[1] + v[2] * v[2] + v[3] * v[3]
    IN  IF length_sq > max * max
        THEN [i \in Axes |-> Trunc(max * v[i], CeilSqrt(length_sq))]
        ELSE v

(* u8 & u8 and u8 | u8 *)
RECURSIVE BitAnd(_, _)
BitAnd(a, b) ==
    IF a = 0 \/ b = 0 THEN 0
    ELSE (a % 2) * (b % 2) + 2 * BitAnd(a \div 2, b \div 2)

RECURSIVE BitOr(_, _)
BitOr(a, b) ==
    IF a = 0 THEN b
    ELSE IF b = 0 THEN a
    ELSE (IF a % 2 = 1 \/ b % 2 = 1 THEN 1 ELSE 0) + 2 * BitOr(a \div 2, b \div 2)

(* valence's enum Direction and `direction as u8` *)
Directions == {"Down", "Up", "North", "South", "West", "East"}

DirectionAsU8(d) ==
    CASE d = "Down"  -> 0
      [] d = "Up"    -> 1
      [] d = "North" -> 2
      [] d = "South" -> 3
      [] d = "West"  -> 4
      [] d = "East"  -> 5

(* 1 << direction as u8 *)
FaceBit(d) == 2 ^ DirectionAsU8(d)

U8_MAX == 255

(* A constructor that keeps the face it saw last. *)
StopOnBlockCollision_new_last(faces) ==
    IF faces = <<>> THEN 0 ELSE FaceBit(faces[Len(faces)])

(* StopOnBlockCollision(u8): `faces` is the Vec<Direction>. *)
StopOnBlockCollision_new(faces) ==
    LET face[n \in 0 .. Len(faces)] ==
            IF n = 0 THEN 0 ELSE BitOr(face[n - 1], FaceBit(faces[n]))
    IN  face[Len(faces)]

StopOnBlockCollision_ground == StopOnBlockCollision_new(<<"Up">>)
StopOnBlockCollision_all    == U8_MAX

should_stop(stop, face)          == BitAnd(stop, FaceBit(face)) # 0
should_stop_bitmap(stop, bitmap) == BitAnd(stop, bitmap) # 0

(* The result before any call. *)
NoStop == [faces |-> <<>>, stop |-> None, answer |-> None]

(* The faces named after the direction the entity moves in. *)
FaceOf_along_motion(i, normal) ==
    CASE i = 1 -> IF normal THEN "West"  ELSE "East"
      [] i = 2 -> IF normal THEN "Down"  ELSE "Up"
      [] i = 3 -> IF normal THEN "North" ELSE "South"

(* The face that normal true / false names on each axis. *)
FaceOf(i, normal) ==
    CASE i = 1 -> IF normal THEN "East"  ELSE "West"
      [] i = 2 -> IF normal THEN "Up"    ELSE "Down"
      [] i = 3 -> IF normal THEN "South" ELSE "North"

(* collision_bitmap |= 1 << direction as u8, axis by axis *)
collision_bitmap(fd) ==
    LET bit(i) == IF fd[i].some THEN FaceBit(FaceOf(i, fd[i].val)) ELSE 0
    IN  BitOr(BitOr(bit(1), bit(2)), bit(3))

EntityCollisionConfig(hb) == [entity_collider_hitbox |-> hb]
BlockCollisionConfig(hb)  == [block_collider_hitbox |-> hb]

EntityEntityCollisionEvent(e1, e2) == [entity1 |-> e1, entity2 |-> e2]

EntityBlockCollisionEvent(e, bp, bitmap) ==
    [entity |-> e, block_pos |-> bp, block_face_bitmap |-> bitmap]

(* The range without its margins. *)
create_range_tight(start, step, steps, center) ==
    IF step > 0 THEN start .. center ELSE center .. start

(* A range that reaches back to the origin of the world. *)
create_range_from_origin(start, step, steps, center) ==
    (Min2(0, Min2(start, center)) - (steps + 2)) .. (Max2(0, Max2(start, center)) + (steps + 2))

(* fn create_range *)
create_range(start, step, steps, center) ==
    IF step > 0
    THEN (start - step * (steps + 1)) .. (center + step * (steps + 2))
    ELSE (center + step * (steps + 2)) .. (start - step * (steps + 1))

(* entity.velocity.0 * time.delta_seconds() *)
velocity_delta(velocity) == [i \in Axes |-> velocity[i] * EpsDen]

(* The candidate cells of one axis with the step of a resting axis taken   *)
(* as 1 (vx >= 0.0).                                                       *)
AxisRange_resting_forward(position, vdelta, entity_hitbox, i) ==
    create_range(as_i32(position[i]),
                 IF vdelta[i] >= 0 THEN 1 ELSE -1,
                 Trunc(width(entity_hitbox, i), 2 * BlockSize),
                 as_i32(position[i] + vdelta[i]))

(* The candidate cells of one axis. *)
AxisRange(position, vdelta, entity_hitbox, i) ==
    create_range(as_i32(position[i]),
                 IF vdelta[i] > 0 THEN 1 ELSE -1,
                 Trunc(width(entity_hitbox, i), 2 * BlockSize),
                 as_i32(position[i] + vdelta[i]))

(* collider.translate(i, j, k) of a full cube *)
BlockAabb(c) ==
    Aabb([i \in Axes |-> c[i] * BlockSize], [i \in Axes |-> (c[i] + 1) * BlockSize])

HasFace(collision) == \E i \in Axes : collision.face_direction[i].some

(* The non-air cells of the candidate lattice. *)
candidate_blocks(position, vdelta, entity_hitbox) ==
    LET rx == AxisRange(position, vdelta, entity_hitbox, 1)
        ry == AxisRange(position, vdelta, entity_hitbox, 2)
        rz == AxisRange(position, vdelta, entity_hitbox, 3)
    IN  { b \in blocks : b[1] \in rx /\ b[2] \in ry /\ b[3] \in rz }

(* potential_collisions: the candidates whose swept test reports a         *)
(* collision with a contact face.                                          *)
potential_collisions(position, vdelta, entity_hitbox) ==
    LET tested == { [block_pos |-> c,
                     collision |-> swept_aabb_collide(entity_hitbox, vdelta, BlockAabb(c))] :
                      c \in candidate_blocks(position, vdelta, entity_hitbox) }
        kept   == { t \in tested : t.collision.some /\ HasFace(t.collision.val) }
    IN  { [block_pos |-> t.block_pos, collision |-> t.collision.val] : t \in kept }

(* The order the three nested loops push the cells in. *)
LexLess(a, b) ==
    \/ a[1] < b[1]
    \/ a[1] = b[1] /\ a[2] < b[2]
    \/ a[1] = b[1] /\ a[2] = b[2] /\ a[3] < b[3]

(* The last pushed of least entry_time. *)
min_by_entry_time_last(pcs) ==
    CHOOSE p \in pcs :
        \A q \in pcs :
            \/ q = p
            \/ TLt(p.collision.entry_time, q.collision.entry_time)
            \/ /\ TEq(p.collision.entry_time, q.collision.entry_time)
               /\ LexLess(q.block_pos, p.block_pos)

(* into_iter().min_by(entry_time): the first pushed of least entry_time *)
min_by_entry_time(pcs) ==
    CHOOSE p \in pcs :
        \A q \in pcs :
            \/ q = p
            \/ TLt(p.collision.entry_time, q.collision.entry_time)
            \/ /\ TEq(p.collision.entry_time, q.collision.entry_time)
               /\ LexLess(p.block_pos, q.block_pos)

(* The advance to the contact itself. *)
Advance_to_contact(vd, entry_time) == (vd * entry_time.n) \div entry_time.d

(* vx as f64 * collision.entry_time, after entry_time -= 0.01 *)
Advance(vd, entry_time) == (vd * entry_time.n) \div entry_time.d - vd \div EpsDen

(* A pass that stops the entity on every axis, whatever the faces. *)
resolve_stops_every_axis(st, e, stop, vdelta, hit) ==
    LET fd     == hit.collision.face_direction
        bitmap == collision_bitmap(fd)
    IN  [position |-> [i \in Axes |->
                         IF fd[i].some
                         THEN st.position[i] + Advance(vdelta[i], hit.collision.entry_time)
                         ELSE st.position[i]],
         velocity |-> ZERO,
         events   |-> Append(st.events,
                             EntityBlockCollisionEvent(e, hit.block_pos, bitmap)),
         passes   |-> st.passes + 1]

(* A pass that advances the entity and leaves its velocity as it was. *)
resolve_keeps_velocity(st, e, stop, vdelta, hit) ==
    LET fd     == hit.collision.face_direction
        bitmap == collision_bitmap(fd)
    IN  [position |-> [i \in Axes |->
                         IF fd[i].some
                         THEN st.position[i] + Advance(vdelta[i], hit.collision.entry_time)
                         ELSE st.position[i]],
         velocity |-> st.velocity,
         events   |-> Append(st.events,
                             EntityBlockCollisionEvent(e, hit.block_pos, bitmap)),
         passes   |-> st.passes + 1]

(* A pass that leaves the stop configuration out. *)
resolve_without_stop(st, e, stop, vdelta, hit) ==
    LET fd     == hit.collision.face_direction
        bitmap == collision_bitmap(fd)
    IN  [position |-> [i \in Axes |->
                         IF fd[i].some
                         THEN st.position[i] + Advance(vdelta[i], hit.collision.entry_time)
                         ELSE st.position[i]],
         velocity |-> [i \in Axes |-> IF fd[i].some THEN 0 ELSE st.velocity[i]],
         events   |-> Append(st.events,
                             EntityBlockCollisionEvent(e, hit.block_pos, bitmap)),
         passes   |-> st.passes + 1]

(* One pass that found a collision: the controlling axes are stopped and   *)
(* advanced to just before the contact, the event is sent, and a stop      *)
(* configuration that names one of the faces stops the entity.             *)
resolve(st, e, stop, vdelta, hit) ==
    LET fd     == hit.collision.face_direction
        bitmap == collision_bitmap(fd)
        vel1   == [i \in Axes |-> IF fd[i].some THEN 0 ELSE st.velocity[i]]
        pos1   == [i \in Axes |->
                     IF fd[i].some
                     THEN st.position[i] + Advance(vdelta[i], hit.collision.entry_time)
                     ELSE st.position[i]]
        stopped == stop.some /\ should_stop_bitmap(stop.val, bitmap)
    IN  [position |-> pos1,
         velocity |-> IF stopped THEN ZERO ELSE vel1,
         events   |-> Append(st.events,
                             EntityBlockCollisionEvent(e, hit.block_pos, bitmap)),
         passes   |-> st.passes + 1]

(* The loop run until a pass finds no collision. *)
RECURSIVE resolve_until_clear(_, _, _, _, _)
resolve_until_clear(st, e, stop, entity_hitbox, n) ==
    LET vdelta == velocity_delta(st.velocity)
        pcs    == potential_collisions(st.position, vdelta, entity_hitbox)
    IN  IF pcs = {} THEN [st EXCEPT !.passes = @ + 1]
        ELSE resolve_until_clear(resolve(st, e, stop, vdelta, min_by_entry_time(pcs)),
                                 e, stop, entity_hitbox, n)

(* The resolution loop with n passes left. *)
RECURSIVE resolve_loop(_, _, _, _, _)
resolve_loop(st, e, stop, entity_hitbox, n) ==
    IF n = 0 THEN st
    ELSE LET vdelta == velocity_delta(st.velocity)
             pcs    == potential_collisions(st.position, vdelta, entity_hitbox)
         IN  IF pcs = {} THEN [st EXCEPT !.passes = @ + 1]
             ELSE resolve_loop(resolve(st, e, stop, vdelta, min_by_entry_time(pcs)),
                               e, stop, entity_hitbox, n - 1)

(* The speed limit applied between drag and acceleration. *)
integrate_limit_before_acceleration(b) ==
    LET v1 == IF b.drag.some
              THEN [i \in Axes |->
                      Trunc(b.velocity[i] * (b.drag.val.den - b.drag.val.num[i]),
                            b.drag.val.den)]
              ELSE b.velocity
        v2 == IF b.speed_limit.some THEN clamp_length(v1, b.speed_limit.val) ELSE v1
    IN  IF b.acceleration.some THEN VAdd(v2, b.acceleration.val) ELSE v2

(* Drag, acceleration and speed limit, in this order. *)
integrate(b) ==
    LET v1 == IF b.drag.some
              THEN [i \in Axes |->
                      Trunc(b.velocity[i] * (b.drag.val.den - b.drag.val.num[i]),
                            b.drag.val.den)]
              ELSE b.velocity
        v2 == IF b.acceleration.some THEN VAdd(v1, b.acceleration.val) ELSE v1
    IN  IF b.speed_limit.some THEN clamp_length(v2, b.speed_limit.val) ELSE v2

(* Events of the emitter with the lower id only. *)
entity_collisions_once(e, b) ==
    IF ~b.entity_collision_config.some THEN <<>>
    ELSE LET aabb  == IF b.entity_collision_config.val.entity_collider_hitbox.some
                      THEN b.entity_collision_config.val.entity_collider_hitbox.val
                      ELSE b.hitbox
             found == get_in_range(bvhs[ENTITY_ENTITY_BVH_IDX], aabb)
             other == SelectSeq(found, LAMBDA o : o.entity > e)
         IN  [k \in 1 .. Len(other) |-> EntityEntityCollisionEvent(e, other[k].entity)]

(* The entity-entity part of the closure: one event for every entry of     *)
(* index 0 in range of the entity's box, the entity's own entry excepted.  *)
entity_collisions(e, b) ==
    IF ~b.entity_collision_config.some THEN <<>>
    ELSE LET aabb  == IF b.entity_collision_config.val.entity_collider_hitbox.some
                      THEN b.entity_collision_config.val.entity_collider_hitbox.val
                      ELSE b.hitbox
             found == get_in_range(bvhs[ENTITY_ENTITY_BVH_IDX], aabb)
             other == SelectSeq(found, LAMBDA o : o.entity # e)
         IN  [k \in 1 .. Len(other) |-> EntityEntityCollisionEvent(e, other[k].entity)]

(* A closure that resolves block collisions for every entity, on its       *)
(* Hitbox when it has no BlockCollisionConfig.                             *)
step_collides_always(e, b) ==
    LET st0 == [position |-> b.position, velocity |-> integrate(b),
                events |-> <<>>, passes |-> 0]
        st1 == resolve_loop(st0, e, b.stop_on_block_collision,
                            IF /\ b.block_collision_config.some
                               /\ b.block_collision_config.val.block_collider_hitbox.some
                            THEN b.block_collision_config.val.block_collider_hitbox.val
                            ELSE b.hitbox,
                            MaxPasses)
    IN  [position     |-> VAdd(st1.position, velocity_delta(st1.velocity)),
         velocity     |-> st1.velocity,
         blockEvents  |-> st1.events,
         passes       |-> st1.passes,
         entityEvents |-> entity_collisions(e, b)]

(* The closure of query.iter_mut().for_each for one entity. *)
step(e, b) ==
    LET st0 == [position |-> b.position, velocity |-> integrate(b),
                events |-> <<>>, passes |-> 0]
        st1 == IF b.block_collision_config.some
               THEN resolve_loop(st0, e, b.stop_on_block_collision,
                                 IF b.block_collision_config.val.block_collider_hitbox.some
                                 THEN b.block_collision_config.val.block_collider_hitbox.val
                                 ELSE b.hitbox,
                                 MaxPasses)
               ELSE st0
    IN  [position     |-> VAdd(st1.position, velocity_delta(st1.velocity)),
         velocity     |-> st1.velocity,
         blockEvents  |-> st1.events,
         passes       |-> st1.passes,
         entityEvents |-> entity_collisions(e, b)]

RECURSIVE Flatten(_)
Flatten(ss) == IF ss = <<>> THEN <<>> ELSE ss[1] \o Flatten(Tail(ss))

(* A drain that takes the first queued event only. *)
try_recv_once(channel) ==
    IF channel = <<>> THEN [items |-> <<>>, rest |-> <<>>]
    ELSE [items |-> <<Head(channel)>>, rest |-> Tail(channel)]

(* rx.try_iter() over the channel the passes sent to: every queued event,  *)
(* oldest first, and nothing stays queued.                                 *)
try_iter(channel) == [items |-> channel, rest |-> <<>>]

(* The entities in the order the query iterates them. *)
RECURSIVE Ascending(_)
Ascending(S) ==
    IF S = {} THEN <<>>
    ELSE LET m == CHOOSE x \in S : \A y \in S : x <= y
         IN  <<m>> \o Ascending(S \ {m})

(* A system in which an entity that another one reports a collision with  *)
(* is brought to rest.                                                     *)
physics_system_stops_the_other ==
    LET ids == Ascending(DOMAIN ents)
        res == [e \in DOMAIN ents |-> step(e, ents[e])]
        reported(e) ==
            \E o \in DOMAIN ents :
                \E k \in DOMAIN res[o].entityEvents : res[o].entityEvents[k].entity2 = e
    IN  /\ ents' = [e \in DOMAIN ents |->
                      [ents[e] EXCEPT !.position = res[e].position,
                                      !.velocity = IF reported(e) THEN ZERO
                                                   ELSE res[e].velocity]]
        /\ blockEvents'  =
              try_iter(Flatten([k \in 1 .. Len(ids) |-> res[ids[k]].blockEvents])).items
        /\ entityEvents' = Flatten([k \in 1 .. Len(ids) |-> res[ids[k]].entityEvents])
        /\ passes' = [e \in DOMAIN ents |-> res[e].passes]
        /\ UNCHANGED <<bvhs, built, out, blocks, order>>

(* fn physics_system: every entity of the query takes its step; the block  *)
(* events go through the channel and are written when the loop is over,    *)
(* the entity events are written as they arise.                            *)
physics_system ==
    LET ids == Ascending(DOMAIN ents)
        res == [e \in DOMAIN ents |-> step(e, ents[e])]
    IN  /\ ents' = [e \in DOMAIN ents |->
                      [ents[e] EXCEPT !.position = res[e].position,
                                      !.velocity = res[e].velocity]]
        /\ blockEvents'  =
              try_iter(Flatten([k \in 1 .. Len(ids) |-> res[ids[k]].blockEvents])).items
        /\ entityEvents' = Flatten([k \in 1 .. Len(ids) |-> res[ids[k]].entityEvents])
        /\ passes' = [e \in DOMAIN ents |-> res[e].passes]
        /\ UNCHANGED <<bvhs, built, out, blocks, order>>

(* The box rebuild_bvh stores for a collision config. *)
EntryBox(b, override) ==
    IF override.some THEN translate(override.val, b.position) ELSE b.hitbox

(* fn rebuild_bvh: nothing happens when no entity has either config;       *)
(* otherwise both indices are built anew.                                  *)
rebuild_bvh ==
    LET ids == Ascending({ e \in DOMAIN ents :
                             \/ ents[e].entity_collision_config.some
                             \/ ents[e].block_collision_config.some })
        ee  == SelectSeq(ids, LAMBDA e : ents[e].entity_collision_config.some)
        eb  == SelectSeq(ids, LAMBDA e : ents[e].block_collision_config.some)
        entity_entity_colls ==
            [k \in 1 .. Len(ee) |->
                EntityBvhEntry(ee[k],
                    EntryBox(ents[ee[k]],
                             ents[ee[k]].entity_collision_config.val.entity_collider_hitbox))]
        entity_block_colls ==
            [k \in 1 .. Len(eb) |->
                EntityBvhEntry(eb[k],
                    EntryBox(ents[eb[k]],
                             ents[eb[k]].block_collision_config.val.block_collider_hitbox))]
        rebuilt(old, entries) ==
            [entries |-> entries, hadEntries |-> old.hadEntries \/ entries # <<>>]
    IN  /\ IF ids = <<>>
           THEN UNCHANGED <<bvhs, built>>
           ELSE /\ bvhs' = [bvhs EXCEPT
                              ![ENTITY_ENTITY_BVH_IDX] = Bvh_build(@, entity_entity_colls),
                              ![ENTITY_BLOCK_BVH_IDX]  = Bvh_build(@, entity_block_colls)]
                /\ built' = [built EXCEPT
                              ![ENTITY_ENTITY_BVH_IDX] = rebuilt(@, entity_entity_colls),
                              ![ENTITY_BLOCK_BVH_IDX]  = rebuilt(@, entity_block_colls)]
        /\ UNCHANGED <<out, ents, blocks, order, blockEvents, entityEvents, passes>>

(* valence's hitbox system: once a tick the Hitbox of every entity is set  *)
(* to its shape at its position.                                           *)
update_hitbox ==
    /\ ents' = [e \in DOMAIN ents |->
                  [ents[e] EXCEPT !.hitbox = translate(ents[e].shape, ents[e].position)]]
    /\ UNCHANGED <<bvhs, built, out, blocks, blockEvents, entityEvents, passes>>

-----------------------------------------------------------------------------
(* crates/chat/src/lib.rs                                                  *)
(*                                                                         *)
(* A HashMap or HashSet is a function or a set; an Entity is a name.       *)

(* HashMap::insert and HashMap::remove *)
Insert(m, k, v) == [x \in DOMAIN m \cup {k} |-> IF x = k THEN v ELSE m[x]]
Remove(m, k)    == [x \in DOMAIN m \ {k} |-> m[x]]

(* ChatChannelConfig, all but required_prefix as in Default *)
ChatChannelConfig(required_prefix) ==
    [hide_msg_for_sender |-> FALSE,
     required_prefix     |-> required_prefix,
     chat_cooldown       |-> None,
     global_prefix       |-> None]

PlayerChatChannelConfig(permission) == [permission |-> permission, prefix |-> None]

(* ChatChannels::default() *)
ChatChannels_new == [channels |-> <<>>, players_to_channels |-> <<>>]

add_channel(self, channel_id, config) ==
    [self EXCEPT !.channels =
        Insert(@, channel_id, [config |-> config, members |-> <<>>])]

add_player_to_channel(self, channel_id, player_entity, player_config) ==
    IF channel_id \notin DOMAIN self.channels
    THEN [ret |-> None, self |-> self]
    ELSE LET channel_config == self.channels[channel_id].config
             channels == [self.channels EXCEPT
                            ![channel_id].members = Insert(@, player_entity, player_config)]
             listed   == IF player_entity \in DOMAIN self.players_to_channels
                         THEN self.players_to_channels
                         ELSE Insert(self.players_to_channels, player_entity,
                                     [with_prefix |-> {}, without_prefix |-> {}])
         IN  [ret  |-> Some(<<>>),
              self |-> [channels |-> channels,
                        players_to_channels |->
                           IF channel_config.required_prefix.some
                           THEN [listed EXCEPT ![player_entity].with_prefix =
                                                  @ \cup {channel_id}]
                           ELSE [listed EXCEPT ![player_entity].without_prefix =
                                                  @ \cup {channel_id}]]]

remove_player_from_channel(self, channel_id, player_entity) ==
    IF channel_id \notin DOMAIN self.channels
    THEN [ret |-> None, self |-> self]
    ELSE LET channels == [self.channels EXCEPT
                            ![channel_id].members = Remove(@, player_entity)]
         IN  [ret  |-> Some(<<>>),
              self |-> [channels |-> channels,
                        players_to_channels |->
                           IF player_entity \in DOMAIN self.players_to_channels
                           THEN [self.players_to_channels EXCEPT
                                   ![player_entity] =
                                      [with_prefix    |-> @.with_prefix \ {channel_id},
                                       without_prefix |-> @.without_prefix \ {channel_id}]]
                           ELSE self.players_to_channels]]

remove_player(self, player_entity) ==
    [channels |-> [c \in DOMAIN self.channels |->
                     [self.channels[c] EXCEPT !.members = Remove(@, player_entity)]],
     players_to_channels |-> Remove(self.players_to_channels, player_entity)]

(* A String is the sequence of its characters. *)

(* str::starts_with *)
starts_with(s, prefix) ==
    Len(prefix) <= Len(s) /\ SubSeq(s, 1, Len(prefix)) = prefix

(* str::trim_start *)
RECURSIVE trim_start(_)
trim_start(s) == IF s # <<>> /\ s[1] = " " THEN trim_start(Tail(s)) ELSE s

(* chat_message[prefix.len()..] *)
skip_prefix(s, prefix) == SubSeq(s, Len(prefix) + 1, Len(s))

(* A permission check that lets everybody read. *)
can_read_always(permission) == TRUE

(* ChatChannelPermission::can_read and can_write *)
can_read(permission)  == permission \in {"ReadWrite", "Read"}
can_write(permission) == permission \in {"ReadWrite", "Write"}

(* ChatChannelConfig with every field given *)
ChatChannelConfigOf(hide_msg_for_sender, required_prefix, chat_cooldown, global_prefix) ==
    [hide_msg_for_sender |-> hide_msg_for_sender,
     required_prefix     |-> required_prefix,
     chat_cooldown       |-> chat_cooldown,
     global_prefix       |-> global_prefix]

(* PlayerChatChannelConfig with every field given *)
PlayerChatChannelConfigOf(permission, prefix) == [permission |-> permission, prefix |-> prefix]

(* ChatAbility *)
ChatAbility(muted_players, last_message_time) ==
    [muted_players |-> muted_players, last_message_time |-> last_message_time]

(* ChatMessageEvent *)
ChatMessageEvent(client, message) == [client |-> client, message |-> message]

(* HashSet::iter: the elements of the set in the order the hasher gives    *)
(* them, hash_order being that order for all ids.                          *)
iter(set, hash_order) == SelectSeq(hash_order, LAMBDA x : x \in set)

(* The receivers loop of chat_system: the members that get the message.    *)
receivers(channel_config, channel_members, clients, client, sender_name) ==
    { player_entity \in DOMAIN channel_members :
        /\ player_entity \in DOMAIN clients
        /\ can_read(channel_members[player_entity].permission)
        /\ ~(channel_config.hide_msg_for_sender /\ player_entity = client)
        /\ sender_name \notin clients[player_entity].chat_ability.muted_players }

(* The body of the channel loop of chat_system for one channel: s holds    *)
(* the clients, sent_to_prefixed_channels, and the log of the run.  A log  *)
(* record tells what became of the event in the channel.                   *)
chat_channel(channels, s, now, n, event, channel_id, is_regular_channel) ==
    LET rec(outcome, got, text) ==
            [n |-> n, event |-> event, channel_id |-> channel_id,
             regular |-> is_regular_channel, outcome |-> outcome,
             receivers |-> got, message |-> text,
             last_before |-> IF event.client \in DOMAIN s.clients
                             THEN s.clients[event.client].chat_ability.last_message_time
                             ELSE None]
        skipped(outcome) == [s EXCEPT !.log = Append(@, rec(outcome, {}, <<>>))]
    IN  IF is_regular_channel /\ s.sent_to_prefixed_channels
        THEN [s EXCEPT !.done = TRUE]
        ELSE IF \/ channel_id \notin DOMAIN channels.channels
                \/ event.client \notin DOMAIN channels.channels[channel_id].members
        THEN [s EXCEPT !.done = TRUE, !.panic = TRUE]
        ELSE
        LET channel_config        == channels.channels[channel_id].config
            channel_members       == channels.channels[channel_id].members
            player_channel_config == channel_members[event.client]
            prefixed == channel_config.required_prefix.some
            matches  == prefixed /\ starts_with(event.message, channel_config.required_prefix.val)
            message0 == IF prefixed
                        THEN trim_start(skip_prefix(event.message,
                                                    channel_config.required_prefix.val))
                        ELSE event.message
            s1       == IF prefixed THEN [s EXCEPT !.sent_to_prefixed_channels = TRUE] ELSE s
        IN  IF ~can_write(player_channel_config.permission) THEN skipped("no_write")
            ELSE IF prefixed /\ ~matches THEN skipped("no_prefix")
            ELSE IF event.client \notin DOMAIN s.clients
            THEN [s1 EXCEPT !.log = Append(@, rec("no_client", {}, <<>>))]
            ELSE IF /\ channel_config.chat_cooldown.some
                    /\ s.clients[event.client].chat_ability.last_message_time.some
                    /\ now - s.clients[event.client].chat_ability.last_message_time.val
                          < channel_config.chat_cooldown.val
            THEN [s1 EXCEPT !.log = Append(@, rec("cooldown", {}, <<>>))]
            ELSE LET message1 == IF player_channel_config.prefix.some
                                 THEN player_channel_config.prefix.val \o message0
                                 ELSE message0
                     message2 == IF channel_config.global_prefix.some
                                 THEN channel_config.global_prefix.val \o message1
                                 ELSE message1
                     got == receivers(channel_config, channel_members, s.clients,
                                      event.client, s.clients[event.client].name)
                 IN  [s1 EXCEPT
                        !.clients[event.client].chat_ability.last_message_time = Some(now),
                        !.log = Append(@, rec("sent", got, message2))]

(* fn chat_system: for every event the channels of the sender, those with  *)
(* a required prefix first, each set in the order of its hasher.           *)
chat_system(channels, clients, now, events, hash_order) ==
    LET of_event(s0, n) ==
            LET event == events[n]
            IN  IF event.client \notin DOMAIN channels.players_to_channels THEN s0
                ELSE LET listed == channels.players_to_channels[event.client]
                         channels_with_prefix == iter(listed.with_prefix, hash_order)
                         chain == channels_with_prefix
                                     \o iter(listed.without_prefix, hash_order)
                         channel_prefix_len == Len(channels_with_prefix)
                         walk[idx \in 0 .. Len(chain)] ==
                             IF idx = 0
                             THEN [s0 EXCEPT !.sent_to_prefixed_channels = FALSE,
                                             !.done = FALSE]
                             ELSE IF walk[idx - 1].done THEN walk[idx - 1]
                             ELSE chat_channel(channels, walk[idx - 1], now, n, event,
                                               chain[idx], idx - 1 >= channel_prefix_len)
                     IN  walk[Len(chain)]
        run[n \in 0 .. Len(events)] ==
            IF n = 0
            THEN [clients |-> clients, sent_to_prefixed_channels |-> FALSE,
                  done |-> FALSE, panic |-> FALSE, log |-> <<>>]
            ELSE IF run[n - 1].panic THEN run[n - 1]
            ELSE of_event(run[n - 1], n)
    IN  run[Len(events)]

(* The chat before anybody is there. *)
NoTalk == [now |-> 0, channels |-> ChatChannels_new, clients |-> <<>>,
           log |-> <<>>, panic |-> FALSE]

(* The world of damage_system before anything lives in it. *)
NoHurt == [bodies |-> <<>>, before |-> <<>>, events |-> <<>>, deaths |-> <<>>]

(* The world of fall_damage_system before anything lives in it. *)
NoFall == [position |-> <<0, 0, 0>>, is_on_ground |-> TRUE, state |-> None,
           before |-> None, events |-> <<>>, peak |-> 0]

(* The registry the plugin inserts, before any call. *)
NoChat == [self |-> ChatChannels_new, call |-> None]

-----------------------------------------------------------------------------
(* crates/combat/src/lib.rs                                                *)
(*                                                                         *)
(* An Instant is a whole number of clock units and Instant::now() is the   *)
(* same for all events of one run.  The attacker holds an item without     *)
(* enchantments and of attack damage 1, the victim wears no armor, nobody  *)
(* is in a team and attack_cooldown_multiplier is None; a damage is a      *)
(* whole number of halves, a knockback its horizontal and its vertical     *)
(* factor (the direction between the two positions is left out).           *)

(* BASE_HIT_COOLDOWN, in clock units of 250 ms *)
HitCooldown == 2

PlayerStateDependantValue(base, sprinting, sneaking, in_air) ==
    [base |-> base, sprinting |-> sprinting, sneaking |-> sneaking, in_air |-> in_air]

PlayerStateDependantValue_always(value) ==
    PlayerStateDependantValue(value, value, value, value)

current(self, movement_state) ==
    CASE movement_state = "InAir"     -> self.in_air
      [] movement_state = "Sprinting" -> self.sprinting
      [] movement_state = "Sneaking"  -> self.sneaking
      [] movement_state = "None"      -> self.base

(* match (sprinting, sneaking, falling_state.falling): the first arm that  *)
(* matches.                                                                *)
movement_state(sprinting, sneaking, falling) ==
    IF sprinting THEN "Sprinting"
    ELSE IF sneaking THEN "Sneaking"
    ELSE IF falling THEN "InAir"
    ELSE "None"

(* calculations::damage_after_armor, for whole armor points and toughness  *)
damage_after_armor(damage, armor_points, toughness) ==
    LET Max(a, b) == IF a >= b THEN a ELSE b
        Min(a, b) == IF a <= b THEN a ELSE b
        \* both parts over the denominator 10 * (toughness + 8); damage is in halves
        den      == 10 * (toughness + 8)
        max_part == Max(2 * armor_points * (toughness + 8),
                        10 * armor_points * (toughness + 8) - 20 * damage)
        min_part == Min(max_part, 20 * den)
    IN  (damage * (25 * den - min_part)) \div (25 * den)

(* A cooldown test that lets every attack through. *)
in_hit_cooldown_never(state, now) == FALSE

(* attacker.state.last_hit.elapsed() < attacker.state.combat_config.hit_cooldown *)
in_hit_cooldown(state, now) == now - state.last_hit < state.combat_config.hit_cooldown

DamageEvent(victim, attacker, damage) ==
    [victim |-> victim, attacker |-> attacker, damage |-> damage]

(* The body of the loop over the InteractEntityEvents for one event; c is  *)
(* the state of the run: the query's entities, the DamageEvents sent, the  *)
(* velocities set on the victims' clients, whether the system has          *)
(* returned, and the events it returned before.                            *)
on_interact_entity(c, now, ev) ==
    IF c.returned THEN [c EXCEPT !.unread = Append(@, ev)]
    ELSE IF ev.interact # "Attack" THEN c
    ELSE IF ev.client = ev.entity THEN c
    ELSE IF ev.client \notin DOMAIN c.players \/ ev.entity \notin DOMAIN c.players THEN c
    ELSE LET attacker == c.players[ev.client]
             victim   == c.players[ev.entity]
         IN  IF in_hit_cooldown(attacker, now) THEN c
             ELSE IF ~attacker.armed THEN [c EXCEPT !.returned = TRUE]
             ELSE
               LET attacker_config == attacker.combat_config
                   victim_config   == victim.combat_config
                   attacker_state  == movement_state(attacker.sprinting, attacker.sneaking,
                                                     attacker.falling)
                   victim_state    == movement_state(victim.sprinting, victim.sneaking,
                                                     victim.falling)
                   knockback_xz == current(attacker_config.horizontal_knockback,
                                           attacker_state)
                   knockback_y  == current(attacker_config.vertical_knockback,
                                           attacker_state)
                   base_damage  == 2
                   damage1 == base_damage
                                * current(attacker_config.damage_multiplier, attacker_state)
                   damage2 == damage_after_armor(damage1, 0, 0)
                   damage3 == damage2
                                * current(victim_config.damage_taken_multiplier, victim_state)
                   \* chance > rand::random::<f32>(), for a chance of 0 or of 1 or more
                   critical == current(attacker_config.random_critical_hit_chance,
                                       attacker_state)
                                 + (IF attacker.falling
                                    THEN attacker_config.critical_hit_chance_falling
                                    ELSE 0) >= 1
                   damage  == IF critical
                              THEN (damage3 * attacker_config.critical_hit_damage_multiplier.num)
                                      \div attacker_config.critical_hit_damage_multiplier.den
                              ELSE damage3
                   knockback ==
                      [xz |-> knockback_xz * 20
                                * current(victim_config.horizontal_knockback_received_multiplier,
                                          victim_state),
                       y  |-> knockback_y * 20
                                * current(victim_config.vertical_knockback_received_multiplier,
                                          victim_state)]
               IN  [c EXCEPT
                      !.set_velocity = Append(@, [client |-> ev.entity,
                                                  velocity |-> knockback]),
                      !.players[ev.entity].last_got_hit = now,
                      !.players[ev.client].last_hit = now,
                      !.players[ev.client].last_attack = now,
                      !.damage = Append(@, DamageEvent(ev.entity, Some(ev.client), damage))]

(* fn combat_system: the SprintEvents, the SneakEvents and then the        *)
(* InteractEntityEvents of the run, each list in order.                    *)
combat_system(players, now, sprinting_events, sneaking_events, interact_entity_events) ==
    LET sprint[n \in 0 .. Len(sprinting_events)] ==
            IF n = 0 THEN players
            ELSE LET ev == sprinting_events[n]
                 IN  IF ev.client \in DOMAIN sprint[n - 1]
                     THEN [sprint[n - 1] EXCEPT ![ev.client].sprinting = (ev.state = "Start")]
                     ELSE sprint[n - 1]
        after_sprint == sprint[Len(sprinting_events)]
        sneak[n \in 0 .. Len(sneaking_events)] ==
            IF n = 0 THEN after_sprint
            ELSE LET ev == sneaking_events[n]
                 IN  IF ev.client \in DOMAIN sneak[n - 1]
                     THEN [sneak[n - 1] EXCEPT ![ev.client].sneaking = (ev.state = "Start")]
                     ELSE sneak[n - 1]
        after_sneak == sneak[Len(sneaking_events)]
        interact[n \in 0 .. Len(interact_entity_events)] ==
            IF n = 0 THEN [players |-> after_sneak, damage |-> <<>>,
                           set_velocity |-> <<>>, returned |-> FALSE,
                           unread |-> <<>>]
            ELSE on_interact_entity(interact[n - 1], now, interact_entity_events[n])
    IN  interact[Len(interact_entity_events)]

(* Before there is any player. *)
NoCombat ==
    [now |-> 0, players |-> <<>>, damage |-> <<>>, set_velocity |-> <<>>, sent |-> <<>>,
     unread |-> <<>>]

-----------------------------------------------------------------------------
(* crates/building/src/placement_handler.rs and crates/building/src/lib.rs *)
(*                                                                         *)
(* Items are "Stone" (a block whose collision shape is the full cube),     *)
(* "Torch" (a block without a collision shape) and "Stick" (no block).     *)
(* None of the blocks has an Axis property, so block_kind.to_state()       *)
(* .set(PropName::Axis, ..) is the default state of the kind.  Instants    *)
(* are whole numbers of clock steps.                                       *)

ItemStack(item, count) == [item |-> item, count |-> count]

ItemStack_EMPTY == ItemStack("Air", 0)

(* BlockKind::from_item_kind *)
from_item_kind(item) == IF item \in {"Stone", "Torch"} THEN Some(item) ELSE None

(* BlockState::collision_shapes, in block-local coordinates *)
collision_shapes(block_kind) ==
    IF block_kind = "Stone"
    THEN <<Aabb(ZERO, <<BlockSize, BlockSize, BlockSize>>)>>
    ELSE <<>>

(* BlockPos::get_in_direction *)
get_in_direction(pos, direction) ==
    CASE direction = "Down"  -> <<pos[1], pos[2] - 1, pos[3]>>
      [] direction = "Up"    -> <<pos[1], pos[2] + 1, pos[3]>>
      [] direction = "North" -> <<pos[1], pos[2], pos[3] - 1>>
      [] direction = "South" -> <<pos[1], pos[2], pos[3] + 1>>
      [] direction = "West"  -> <<pos[1] - 1, pos[2], pos[3]>>
      [] direction = "East"  -> <<pos[1] + 1, pos[2], pos[3]>>

(* ChunkLayer::set_block: the layer maps the positions of its loaded       *)
(* chunks, inside the build height, to block states; for any other         *)
(* position no operation occurs and None is returned.                      *)
set_block(chunk_layer, pos, state) ==
    IF pos \in DOMAIN chunk_layer THEN [chunk_layer EXCEPT ![pos] = state]
    ELSE chunk_layer

(* DVec3::new(0.0, 0.01, 0.0) *)
tolerance == <<0, BlockSize \div 100, 0>>

(* The block_hitbox tested against the index: the shape at real_pos,       *)
(* lowered at the top and raised at the bottom by the tolerance.           *)
placed_hitbox(shape, real_pos) ==
    Aabb([i \in Axes |-> shape.min[i] + real_pos[i] * BlockSize + tolerance[i]],
         [i \in Axes |-> shape.max[i] + real_pos[i] * BlockSize - tolerance[i]])

(* fn on_try_place_default *)
on_try_place_default(clicked_pos, chunk_layer, player_inventory, held_item, direction, bvh) ==
    LET slot_id    == held_item
        stack      == player_inventory[slot_id]
        block_kind == from_item_kind(stack.item)
        unchanged  == [ret |-> FALSE, chunk_layer |-> chunk_layer,
                       player_inventory |-> player_inventory]
    IN  IF stack.count = 0 THEN unchanged
        ELSE IF ~block_kind.some THEN unchanged
        ELSE LET block_hitboxes == collision_shapes(block_kind.val)
                 real_pos       == get_in_direction(clicked_pos, direction)
             IN  IF \E k \in DOMAIN block_hitboxes :
                        get_in_range(bvh[ENTITY_BLOCK_BVH_IDX],
                                     placed_hitbox(block_hitboxes[k], real_pos)) # <<>>
                 THEN unchanged
                 ELSE [ret |-> TRUE,
                       chunk_layer |-> set_block(chunk_layer, real_pos, block_kind.val),
                       player_inventory |->
                           IF stack.count > 1
                           THEN [player_inventory EXCEPT ![slot_id].count = stack.count - 1]
                           ELSE [player_inventory EXCEPT ![slot_id] = ItemStack_EMPTY]]

(* InteractBlockEvent *)
InteractBlockEvent(client, position, face, hand) ==
    [client |-> client, position |-> position, face |-> face, hand |-> hand]

(* PlayerBuildConfig; on_try_place is on_try_place_default *)
PlayerBuildConfig(place_cooldown) == [place_cooldown |-> place_cooldown]

(* BuildState *)
BuildState(last_place, build_config) ==
    [last_place |-> last_place, build_config |-> build_config]

(* An event the loop passed over. *)
Ignored(event, state, now) ==
    [event |-> event, called |-> FALSE, state |-> state, now |-> now]

(* A call of on_try_place with what it was given and what it left. *)
Called(event, state, now, before, after) ==
    [event |-> event, called |-> TRUE, state |-> state, now |-> now, ret |-> after.ret,
     before |-> before,
     after  |-> [chunk_layer |-> after.chunk_layer,
                 player_inventory |-> after.player_inventory]]

(* fn build_system: `clients` maps the entities of the BuildQuery to       *)
(* their build_state, inventory and held_item, there is one chunk layer,   *)
(* and now is the instant of the run.  `log` keeps one record per event    *)
(* read.                                                                   *)
build_system(clients, layer, bvh, now, events) ==
    LET run[n \in 0 .. Len(events)] ==
            IF n = 0 THEN [clients |-> clients, layer |-> layer, log |-> <<>>]
            ELSE LET s     == run[n - 1]
                     event == events[n]
                 IN  IF event.client \notin DOMAIN s.clients
                     THEN [s EXCEPT !.log = Append(@, Ignored(event, None, now))]
                     ELSE LET build_query == s.clients[event.client]
                              build_state == build_query.build_state
                          IN  IF now - build_state.last_place
                                     < build_state.build_config.place_cooldown
                              THEN [s EXCEPT !.log = Append(@, Ignored(event, Some(build_state), now))]
                              ELSE IF event.hand # "Main"
                              THEN [s EXCEPT !.log = Append(@, Ignored(event, Some(build_state), now))]
                              ELSE LET before == [chunk_layer |-> s.layer,
                                                  player_inventory |-> build_query.inventory]
                                       after  == on_try_place_default(
                                                     event.position, s.layer,
                                                     build_query.inventory,
                                                     build_query.held_item,
                                                     event.face, bvh)
                                   IN  [clients |->
                                          [s.clients EXCEPT
                                             ![event.client].inventory = after.player_inventory,
                                             ![event.client].build_state.last_place =
                                                 IF after.ret THEN now ELSE @],
                                        layer |-> after.chunk_layer,
                                        log |-> Append(s.log,
                                                 Called(event, Some(build_state), now,
                                                        before, after))]
    IN  run[Len(events)]

(* The world before any player can build. *)
NoBuilding == [now |-> 0, clients |-> <<>>, layer |-> <<>>, log |-> <<>>]
-----------------------------------------------------------------------------
(* The systems that take the BvhResource as a parameter *)

SchedSystems == {"physics_system", "rebuild_bvh", "build_system"}

(* Every system declared to read the resource only. *)
access_shared(s) == "Res"

(* bvh: ResMut<BvhResource> in physics_system and rebuild_bvh,             *)
(* bvh: Res<BvhResource> in build_system                                   *)
access(s) ==
    CASE s = "physics_system" -> "ResMut"
      [] s = "rebuild_bvh"    -> "ResMut"
      [] s = "build_system"   -> "Res"

(* The index a system's get_in_range calls go to. *)
queried(s) ==
    CASE s = "physics_system" -> ENTITY_ENTITY_BVH_IDX
      [] s = "build_system"   -> ENTITY_BLOCK_BVH_IDX

(* Two systems that the schedule does not run at the same time: one of     *)
(* them takes the resource mutably.                                        *)
conflicts(s, t) == access(s) = "ResMut" \/ access(t) = "ResMut"

Active(sc, s) == sc.sys[s].pc \in {"run", "query", "build"}

(* No system runs and both trees are complete. *)
NoSystems ==
    [sys  |-> [s \in SchedSystems |-> [pc |-> "idle", left |-> 0, id |-> 0, seen |-> 0]],
     tree |-> [i \in {ENTITY_ENTITY_BVH_IDX, ENTITY_BLOCK_BVH_IDX} |->
                 [version |-> 0, building |-> FALSE]],
     tick |-> 0]

-----------------------------------------------------------------------------
(* The world of the physics model *)

WorldRadius == 3
FloorTop    == 64
DropHeight  == 6
MaxSpeed    == 1

(* The part of the world the model follows entities in. *)
InWorld(position) ==
    /\ Abs(position[1]) <= WorldRadius * BlockSize
    /\ Abs(position[3]) <= WorldRadius * BlockSize
    /\ position[2] >= (FloorTop - 2) * BlockSize
    /\ position[2] <= (FloorTop + DropHeight + 1) * BlockSize

Span == (-WorldRadius) .. WorldRadius

(* A flat floor whose top is at FloorTop. *)
FloorWorld == { <<x, FloorTop - 1, z>> : x \in Span, z \in Span }

(* The floor with a wall on each side of the cells -1 .. 1. *)
RoomWorld ==
    FloorWorld
    \cup { <<x, y, z>> : x \in {-2, 2}, y \in FloorTop .. (FloorTop + 2), z \in Span }
    \cup { <<x, y, z>> : x \in Span, y \in FloorTop .. (FloorTop + 2), z \in {-2, 2} }

Cube(h) == Aabb(<<-h, -h, -h>>, <<h, h, h>>)

Body(pos, vel, cfg, shape, ecfg, bcfg) ==
    [position     |-> pos,
     velocity     |-> vel,
     acceleration |-> cfg.acceleration,
     drag         |-> cfg.drag,
     speed_limit  |-> cfg.speed_limit,
     stop_on_block_collision |-> cfg.stop,
     shape        |-> shape,
     hitbox       |-> translate(shape, pos),
     entity_collision_config |-> ecfg,
     block_collision_config  |-> bcfg]

Cfg(acc, drag, limit, stop) ==
    [acceleration |-> acc, drag |-> drag, speed_limit |-> limit, stop |-> stop]

Gravity(g) == Some(<<0, -g, 0>>)
HalfDrag   == Some([num |-> <<1, 1, 1>>, den |-> 2])

Cfgs ==
    { Cfg(None, None, None, None),
      Cfg(Some(ZERO), HalfDrag, Some(10), Some(StopOnBlockCollision_ground)),
      Cfg(Gravity(2), None, None, None),
      Cfg(Gravity(2), None, Some(12), Some(StopOnBlockCollision_all)),
      Cfg(None, HalfDrag, None, Some(StopOnBlockCollision_all)),
      Cfg(Gravity(2), None, None, Some(StopOnBlockCollision_ground)),
      Cfg(Gravity(2), HalfDrag, Some(8), None) }

Speeds == { 8 * k : k \in (-MaxSpeed) .. MaxSpeed }

Half == BlockSize \div 2

(* An entity that falls onto the floor from DropHeight or from 2 blocks,   *)
(* its box a cube of half-height 0.5 around its position.                  *)
FallScenarios ==
    { [ents   |-> 1 :> Body(<<Half, (FloorTop + h) * BlockSize, Half>>, <<vx, vy, 0>>,
                            Cfg(Gravity(g), None, None, stop),
                            Cube(Half), None, Some(BlockCollisionConfig(None))),
       blocks |-> FloorWorld,
       order  |-> "physics_first"] :
        h \in {2, DropHeight}, vx \in {0, 8}, vy \in {0, -7}, g \in {2, 5},
        stop \in {None, Some(StopOnBlockCollision_ground)} }

(* An entity of half-width 0.3 in a walled room: in the middle just above  *)
(* the floor, in the middle sunk into the floor, or close to a corner.     *)
RoomScenarios ==
    { [ents   |-> 1 :> Body(VAdd(<<0, FloorTop * BlockSize, 0>>, p), v, cfg,
                            Cube(750), None, Some(BlockCollisionConfig(None))),
       blocks |-> RoomWorld,
       order  |-> "rebuild_first"] :
        p \in { <<Half, 1000, Half>>, <<Half, 500, Half>>, <<-1625, 1000, -1375>> },
        v \in [Axes -> Speeds], cfg \in Cfgs }

(* Two entities side by side in the air above the floor: overlapping,      *)
(* touching or apart; each with or without the entity collision config,    *)
(* the first one possibly moving.                                          *)
PairScenarios ==
    { [ents   |-> (1 :> Body(<<Half, (FloorTop + 2) * BlockSize, Half>>, <<vx, 0, 0>>,
                             Cfg(None, None, None, None), Cube(Half), ec[1], None)
                @@ 2 :> Body(<<Half + dx, (FloorTop + 2) * BlockSize, Half>>, ZERO,
                             Cfg(None, None, None, None), Cube(Half), ec[2], None)),
       blocks |-> FloorWorld,
       order  |-> o] :
        vx \in {0, 8}, dx \in {1500, 2500, 7500},
        ec \in [1 .. 2 -> {None, Some(EntityCollisionConfig(None)),
                           Some(EntityCollisionConfig(Some(Cube(1000))))}],
        o \in {"physics_first", "rebuild_first"} }

(* Two entities in the room: one moves into the corner, the other falls    *)
(* onto the floor in the middle.                                           *)
DuoScenarios ==
    { [ents   |-> (1 :> Body(<<-1625, FloorTop * BlockSize + 1000, -1375>>, <<-8, -8, -8>>,
                             Cfg(None, None, None, None), Cube(750), ec,
                             Some(BlockCollisionConfig(None)))
                @@ 2 :> Body(<<Half, FloorTop * BlockSize + 1000, Half>>, <<0, -8, 0>>,
                             Cfg(None, None, None, None), Cube(750), None, bc)),
       blocks |-> RoomWorld,
       order  |-> o] :
        ec \in {None, Some(EntityCollisionConfig(None))},
        bc \in {None, Some(BlockCollisionConfig(None))},
        o \in {"physics_first", "rebuild_first"} }

(* The floor with one block standing on it, beside the cell column (0, 0). *)
StepWorld == FloorWorld \cup {<<1, FloorTop, 0>>}

(* An entity of half-width 0.3 that comes down fast beside the block, from *)
(* above its top, drifting towards it or not.                              *)
DiveScenarios ==
    { [ents   |-> 1 :> Body(<<1150, FloorTop * BlockSize + BlockSize + 800, Half>>,
                            <<vx, -40, 0>>, Cfg(None, None, None, stop),
                            Cube(750), None, Some(BlockCollisionConfig(None))),
       blocks |-> StepWorld,
       order  |-> "physics_first"] :
        vx \in {0, 8}, stop \in {None, Some(StopOnBlockCollision_ground)} }

(* An entity of half-width 0.3 above the floor at x = -1.8, its box over   *)
(* the cells -3 and -2, moving towards greater or lesser x.                *)
EdgeScenarios ==
    { [ents   |-> 1 :> Body(<<-4500, FloorTop * BlockSize + 1000, Half>>,
                            <<vx, -8, 0>>, Cfg(None, None, None, None),
                            Cube(750), None, Some(BlockCollisionConfig(None))),
       blocks |-> FloorWorld,
       order  |-> "physics_first"] : vx \in {-8, 8} }

Scenarios ==
    FallScenarios \cup RoomScenarios \cup PairScenarios \cup DuoScenarios
        \cup DiveScenarios \cup EdgeScenarios

PhysInit ==
    /\ \E sc \in Scenarios :
          /\ ents   = sc.ents
          /\ blocks = sc.blocks
          /\ order  = sc.order
    /\ pc           = "pre"
    /\ blockEvents  = <<>>
    /\ entityEvents = <<>>
    /\ passes       = [e \in DOMAIN ents |-> 0]
    /\ bvhs         = with_bvhs(2)
    /\ built        = [i \in 0 .. 1 |-> [entries |-> <<>>, hadEntries |-> FALSE]]
    /\ out          = [op |-> "none"]
    /\ swIn         = None
    /\ swOut        = None
    /\ sched        = NoSystems
    /\ fall         = NoFall
    /\ hurt         = NoHurt
    /\ talk         = NoTalk
    /\ build        = NoBuilding
    /\ combat       = NoCombat
    /\ chat         = NoChat
    /\ stops        = NoStop

PhysicsTurn == (order = "physics_first" /\ pc = "pre") \/ (order = "rebuild_first" /\ pc = "one")
RebuildTurn == (order = "rebuild_first" /\ pc = "pre") \/ (order = "physics_first" /\ pc = "one")

RunPhysics ==
    /\ PhysicsTurn
    /\ \A e \in DOMAIN ents : InWorld(ents[e].position)
    /\ physics_system
    /\ pc' = IF pc = "pre" THEN "one" ELSE "post"
    /\ UNCHANGED <<sweptVars, schedVars, stopVars, chatVars, combatVars, buildVars, talkVars, hurtVars, fallVars>>

RunRebuild ==
    /\ RebuildTurn
    /\ rebuild_bvh
    /\ pc' = IF pc = "pre" THEN "one" ELSE "post"
    /\ UNCHANGED <<sweptVars, schedVars, stopVars, chatVars, combatVars, buildVars, talkVars, hurtVars, fallVars>>

(* The orders the schedule can give the two systems of                     *)
(* add_systems(PreUpdate, (physics_system, rebuild_bvh)): the tuple states *)
(* no order between them.                                                  *)
Orders == {"physics_first", "rebuild_first"}

(* The end of a tick; the schedule settles the order of the next one. *)
EndTick ==
    /\ pc = "post"
    /\ update_hitbox
    /\ pc' = "pre"
    /\ order' \in Orders
    /\ UNCHANGED <<sweptVars, schedVars, stopVars, chatVars, combatVars, buildVars, talkVars, hurtVars, fallVars>>

PhysNext == RunPhysics \/ RunRebuild \/ EndTick

SpecPhys == PhysInit /\ [][PhysNext]_vars

-----------------------------------------------------------------------------
(* The index on its own: builds, clears and queries of index 0. *)

MaxEntries == 3

BoxPool ==
    { Aabb(<<0, 0, 0>>, <<1, 1, 1>>),
      Aabb(<<3, 0, 0>>, <<4, 1, 1>>),
      Aabb(<<1, 2, 0>>, <<3, 4, 4>>) }

(* Entry lists: the i-th entry belongs to entity i. *)
EntryLists ==
    UNION { { [i \in 1 .. n |-> EntityBvhEntry(i, f[i])] : f \in [1 .. n -> BoxPool] }
            : n \in 0 .. MaxEntries }

QueryBoxes ==
    { Aabb(<<0, 0, 0>>, <<4, 4, 4>>),
      Aabb(<<0, 0, 0>>, <<1, 1, 1>>),
      Aabb(<<2, 0, 0>>, <<4, 1, 1>>),
      Aabb(<<0, 2, 0>>, <<1, 4, 4>>),
      Aabb(<<4, 1, 1>>, <<5, 2, 2>>),
      Aabb(<<2, 2, 2>>, <<3, 3, 3>>),
      Aabb(<<5, 5, 5>>, <<6, 6, 6>>),
      Aabb(<<1, 1, 1>>, <<1, 1, 1>>),
      Aabb(<<0, 0, 0>>, <<4, 0, 4>>),
      Aabb(<<3, 3, 3>>, <<1, 1, 1>>) }

QueryPoints ==
    { <<0, 0, 0>>, <<2, 0, 0>>, <<4, 4, 4>>, <<2, 2, 2>>,
      <<0, 2, 1>>, <<5, 0, 3>>, <<1, 5, 1>>, <<2, 1, 6>> }

Ties == {"first", "last"}

NoQuery == [op |-> "none"]

NoBuild == [entries |-> <<>>, hadEntries |-> FALSE]

BvhInit ==
    /\ bvhs  = with_bvhs(2)
    /\ built = [i \in 0 .. 1 |-> NoBuild]
    /\ out   = NoQuery
    /\ swIn  = None
    /\ swOut = None
    /\ ents  = <<>>
    /\ blocks = {}
    /\ order = "physics_first"
    /\ pc    = "pre"
    /\ blockEvents  = <<>>
    /\ entityEvents = <<>>
    /\ passes = <<>>
    /\ sched  = NoSystems
    /\ fall   = NoFall
    /\ hurt   = NoHurt
    /\ talk   = NoTalk
    /\ build  = NoBuilding
    /\ combat = NoCombat
    /\ chat   = NoChat
    /\ stops  = NoStop

Build(id, entries) ==
    /\ bvhs'  = [bvhs EXCEPT ![id] = Bvh_build(@, entries)]
    /\ built' = [built EXCEPT ![id] =
                    [entries    |-> entries,
                     hadEntries |-> @.hadEntries \/ entries # <<>>]]
    /\ out'   = NoQuery

Clear(id) ==
    /\ bvhs'  = [bvhs EXCEPT ![id] = Bvh_clear(@)]
    /\ built' = [built EXCEPT ![id].entries = <<>>]
    /\ out'   = NoQuery

GetInRange(id, target) ==
    /\ out' = [op |-> "range", id |-> id, target |-> target,
               result |-> get_in_range(bvhs[id], target)]
    /\ UNCHANGED <<bvhs, built>>

GetClosest(id, target, tie) ==
    /\ out' = [op |-> "closest", id |-> id, target |-> target,
               result |-> get_closest(bvhs[id], target, tie)]
    /\ UNCHANGED <<bvhs, built>>

BvhNext ==
    \/ \E es \in EntryLists : Build(ENTITY_ENTITY_BVH_IDX, es) /\ UNCHANGED <<sweptVars, physVars, schedVars, stopVars, chatVars, combatVars, buildVars, talkVars, hurtVars, fallVars>>
    \/ Clear(ENTITY_ENTITY_BVH_IDX) /\ UNCHANGED <<sweptVars, physVars, schedVars, stopVars, chatVars, combatVars, buildVars, talkVars, hurtVars, fallVars>>
    \/ \E t \in QueryBoxes : GetInRange(ENTITY_ENTITY_BVH_IDX, t) /\ UNCHANGED <<sweptVars, physVars, schedVars, stopVars, chatVars, combatVars, buildVars, talkVars, hurtVars, fallVars>>
    \/ \E p \in QueryPoints, tie \in Ties :
          GetClosest(ENTITY_ENTITY_BVH_IDX, p, tie) /\ UNCHANGED <<sweptVars, physVars, schedVars, stopVars, chatVars, combatVars, buildVars, talkVars, hurtVars, fallVars>>

SpecBvh == BvhInit /\ [][BvhNext]_vars

-----------------------------------------------------------------------------
(* Brute force over the entries of the latest build *)

Range(s) == { s[i] : i \in 1 .. Len(s) }

BruteRange(entries, target) ==
    { e \in Range(entries) : Overlaps(target, e.hitbox) }

BruteMinDist2(entries, p) ==
    CHOOSE d \in { dist2(e.hitbox, p) : e \in Range(entries) } :
        \A e \in Range(entries) : d <= dist2(e.hitbox, p)

(* C1: a range query on the built index yields exactly the entries whose   *)
(* hitbox overlaps the query box, as a linear scan of the built entries    *)
(* does; a degenerate query box yields nothing.                            *)
C1_RangeIsBruteForce ==
    out.op = "range" =>
        /\ Range(out.result) = BruteRange(built[out.id].entries, out.target)
        /\ IsDegenerate(out.target) => out.result = <<>>

(* C1 witness: a query on a tree with an internal root returns some but    *)
(* not all of the built entries.                                           *)
C1_Witness ==
    /\ out.op = "range"
    /\ bvhs[out.id].kind = "internal"
    /\ out.result # <<>>
    /\ Len(out.result) < Len(built[out.id].entries)

C3_EmptyIndexAnswersEmpty ==
    (out.op # "none" /\ built[out.id].entries = <<>>) =>
        /\ out.op = "range" => out.result = <<>>
        /\ out.op = "closest" => out.result = None

(* C3 witness: an index that held entries was rebuilt empty and queried.   *)
C3_Witness ==
    /\ out.op = "closest"
    /\ built[out.id].hadEntries
    /\ built[out.id].entries = <<>>
    /\ out.result = None

-----------------------------------------------------------------------------
(* The narrowphase on its own: one call on a moving box and a block. *)

SwMaxVel == 2

(* Lower corners of the moving box, per axis: apart below by 2 and by 1,   *)
(* touching below, overlapping, touching above, apart above.               *)
SwCorners == {0, 1, 2, 3, 6, 7}

SwBlock == Aabb(<<4, 4, 4>>, <<6, 6, 6>>)

SwInputs ==
    { [hb1      |-> Aabb(p, [i \in Axes |-> p[i] + 2]),
       velocity |-> v,
       hb2      |-> SwBlock] :
        p \in [Axes -> SwCorners], v \in [Axes -> (-SwMaxVel) .. SwMaxVel] }

NotCalled == [called |-> FALSE]

SweptInit ==
    /\ swIn \in SwInputs
    /\ swOut = NotCalled
    /\ bvhs  = with_bvhs(2)
    /\ built = [i \in 0 .. 1 |-> NoBuild]
    /\ out   = NoQuery
    /\ ents  = <<>>
    /\ blocks = {}
    /\ order = "physics_first"
    /\ pc    = "pre"
    /\ blockEvents  = <<>>
    /\ entityEvents = <<>>
    /\ passes = <<>>
    /\ sched  = NoSystems
    /\ fall   = NoFall
    /\ hurt   = NoHurt
    /\ talk   = NoTalk
    /\ build  = NoBuilding
    /\ combat = NoCombat
    /\ chat   = NoChat
    /\ stops  = NoStop

Collide ==
    /\ ~swOut.called
    /\ swOut' = [called |-> TRUE,
                 result |-> swept_aabb_collide(swIn.hb1, swIn.velocity, swIn.hb2)]
    /\ UNCHANGED <<swIn, bvhVars, physVars, schedVars, stopVars, chatVars, combatVars, buildVars, talkVars, hurtVars, fallVars>>

SweptNext == Collide

SpecSwept == SweptInit /\ [][SweptNext]_vars

(* The per-axis times as section 4.4 of the design states them: an axis    *)
(* without velocity overlaps for ever or never.                            *)
DesignEntry(in, i) ==
    LET v == in.velocity[i]
    IN  IF v > 0 THEN Fin(in.hb2.min[i] - in.hb1.max[i], v)
        ELSE IF v < 0 THEN Fin(in.hb1.min[i] - in.hb2.max[i], -v)
        ELSE IF AxisApart(in.hb1, in.hb2, i) THEN POS_INFINITY
        ELSE NEG_INFINITY

DesignExit(in, i) ==
    LET v == in.velocity[i]
    IN  IF v > 0 THEN Fin(in.hb2.max[i] - in.hb1.min[i], v)
        ELSE IF v < 0 THEN Fin(in.hb1.max[i] - in.hb2.min[i], -v)
        ELSE IF AxisApart(in.hb1, in.hb2, i) THEN NEG_INFINITY
        ELSE POS_INFINITY

DesignOverallEntry(in) ==
    TMax(TMax(DesignEntry(in, 1), DesignEntry(in, 2)), DesignEntry(in, 3))

DesignOverallExit(in) ==
    TMin(TMin(DesignExit(in, 1), DesignExit(in, 2)), DesignExit(in, 3))

DesignNoCollision(in) ==
    \/ TGt(DesignOverallEntry(in), DesignOverallExit(in))
    \/ \A i \in Axes : TLt(DesignEntry(in, i), Zero)
    \/ TGt(DesignOverallEntry(in), One)

(* C9: swept_aabb_collide returns None when the overall entry is after the *)
(* overall exit, when all three entries are negative or when the overall   *)
(* entry is beyond 1; otherwise it returns the maximum of the three        *)
(* entries as entry_time.                                                  *)
C9_SweptNoneOrMaxEntry ==
    swOut.called =>
        IF DesignNoCollision(swIn) THEN swOut.result = None
        ELSE /\ swOut.result.some
             /\ TEq(swOut.result.val.entry_time, DesignOverallEntry(swIn))

(* C9 witness: a call returned a collision strictly inside the tick, with  *)
(* two axes moving at different entry times.                               *)
C9_Witness ==
    /\ swOut.called
    /\ swOut.result.some
    /\ TGt(swOut.result.val.entry_time, Zero)
    /\ TLt(swOut.result.val.entry_time, One)
    /\ \E i \in Axes :
          /\ swIn.velocity[i] # 0
          /\ TLt(DesignEntry(swIn, i), swOut.result.val.entry_time)

(* C10: in a result an axis has a normal exactly when its entry is the     *)
(* overall entry; the normal is true when the box moves in the negative    *)
(* direction, false when it moves in the positive one; an axis without     *)
(* velocity never has a normal, and boxes apart on such an axis give None. *)
C10_FaceDirection ==
    swOut.called =>
        /\ (\E i \in Axes : swIn.velocity[i] = 0 /\ AxisApart(swIn.hb1, swIn.hb2, i))
              => swOut.result = None
        /\ swOut.result.some =>
              \A i \in Axes :
                 LET f == swOut.result.val.face_direction[i]
                 IN  /\ f.some <=> TEq(DesignEntry(swIn, i), DesignOverallEntry(swIn))
                     /\ f.some => (f.val <=> swIn.velocity[i] < 0)
                     /\ swIn.velocity[i] = 0 => ~f.some

(* C10 witness: a result with a normal on one moving axis, none on another *)
(* moving axis and none on an axis without velocity.                       *)
C10_Witness ==
    /\ swOut.called
    /\ swOut.result.some
    /\ \E i, j, k \in Axes :
          /\ swIn.velocity[i] < 0 /\ swOut.result.val.face_direction[i] = Some(TRUE)
          /\ swIn.velocity[j] # 0 /\ ~swOut.result.val.face_direction[j].some
          /\ swIn.velocity[k] = 0

-----------------------------------------------------------------------------
(* Claims about the physics step *)

(* The step being taken is a run of physics_system. *)
PhysicsRuns == PhysicsTurn /\ pc' # pc

(* The faces a bitmap encodes. *)
FacesOf(bitmap) == { f \in Directions : BitAnd(bitmap, FaceBit(f)) # 0 }

(* physics_system has run in the current tick. *)
PhysicsDone == pc = "post" \/ (order = "physics_first" /\ pc = "one")

BlockEventsOf(evs, e) == SelectSeq(evs, LAMBDA ev : ev.entity = e)

Static(b) ==
    /\ b.velocity = ZERO
    /\ ~b.acceleration.some \/ b.acceleration.val = ZERO

(* The box and a block share a volume. *)
Sunk(box, c) ==
    \A i \in Axes : box.min[i] < (c[i] + 1) * BlockSize /\ box.max[i] > c[i] * BlockSize

(* C4: an entity without velocity and without (or with zero) acceleration  *)
(* keeps its position and velocity in every step and physics_system sends  *)
(* no block collision event for it.                                        *)
C4_StaticBodyStays ==
    [][\A e \in DOMAIN ents :
          Static(ents[e]) =>
             /\ ents'[e].position = ents[e].position
             /\ Static(ents'[e])
             /\ PhysicsRuns => BlockEventsOf(blockEvents', e) = <<>>]_vars

(* C4 witness: physics_system has run on a resting entity with block       *)
(* collision, drag and speed limit whose box is sunk into a block.         *)
C4_Witness ==
    /\ PhysicsDone
    /\ \E e \in DOMAIN ents :
          /\ Static(ents[e])
          /\ ents[e].block_collision_config.some
          /\ ents[e].drag.some /\ ents[e].speed_limit.some
          /\ passes[e] = 1
          /\ blockEvents = <<>>
          /\ \E c \in blocks : Sunk(ents[e].hitbox, c)

FloorTopU == FloorTop * BlockSize

(* An entity that falls onto the flat floor: block collision on its own    *)
(* current hitbox, downward acceleration, over the floor and not below it. *)
Falling(b) ==
    /\ blocks = FloorWorld
    /\ b.block_collision_config = Some(BlockCollisionConfig(None))
    /\ b.acceleration.some
    /\ b.acceleration.val[1] = 0 /\ b.acceleration.val[2] < 0 /\ b.acceleration.val[3] = 0
    /\ b.hitbox = translate(b.shape, b.position)
    /\ b.hitbox.min[2] >= FloorTopU

(* This tick's displacement brings the bottom of the box to the floor's    *)
(* top or below it.                                                        *)
Lands(b) ==
    /\ Falling(b)
    /\ b.hitbox.min[2] + velocity_delta(integrate(b))[2] <= FloorTopU

(* C5: in the tick whose displacement would bring the bottom of a falling  *)
(* entity's box to or below the floor's top, the entity ends with vertical *)
(* velocity 0 and its box is not below the floor's top.                    *)
C5_RestsInTickOfContact ==
    [][PhysicsRuns =>
          \A e \in DOMAIN ents :
             Lands(ents[e]) =>
                /\ ents'[e].velocity[2] = 0
                /\ ents'[e].position[2] + ents[e].shape.min[2] >= FloorTopU]_vars

(* C5 witness: an entity that was in the air with a downward velocity has  *)
(* met the floor in this run and has no vertical velocity.                 *)
C5_Witness ==
    /\ PhysicsDone
    /\ blocks = FloorWorld
    /\ \E e \in DOMAIN ents :
          /\ ents[e].velocity[2] = 0
          /\ ents[e].acceleration.some /\ ents[e].acceleration.val[2] < 0
          /\ ents[e].position[2] # ents[e].hitbox.min[2] - ents[e].shape.min[2]
          /\ Len(BlockEventsOf(blockEvents, e)) = 1
          /\ blockEvents[1].block_face_bitmap = FaceBit("Up")

(* C6 as stated: after the tick of contact position.y is the floor's top   *)
(* plus the half-height minus 0.01, whatever the speed.                    *)
C6_RestsAtHalfHeightMinusEps ==
    [][PhysicsRuns =>
          \A e \in DOMAIN ents :
             Lands(ents[e]) =>
                ents'[e].position[2] =
                    FloorTopU - ents[e].shape.min[2] - BlockSize \div EpsDen]_vars

(* C6: after the tick of contact position.y is the floor's top plus the    *)
(* half-height plus 0.01 of that tick's downward displacement: the entity  *)
(* rests above the contact height by an amount that grows with its speed.  *)
C6_RestsAboveContactBySpeed ==
    [][PhysicsRuns =>
          \A e \in DOMAIN ents :
             Lands(ents[e]) =>
                /\ ents'[e].position[2] =
                       FloorTopU - ents[e].shape.min[2]
                       + Abs(velocity_delta(integrate(ents[e]))[2]) \div EpsDen
                /\ ents'[e].position[2] > FloorTopU - ents[e].shape.min[2]]_vars

(* C6 witness: the literal case.  Half-height 0.5, floor top 64, start at  *)
(* 70, acceleration (0, -32, 0), dt 0.05: the twelfth tick has a           *)
(* displacement of -0.96 and leaves the entity at 64.5 + 0.0096.           *)
C6_Witness ==
    /\ PhysicsDone
    /\ blocks = FloorWorld
    /\ \E e \in DOMAIN ents :
          /\ ents[e].acceleration = Gravity(2)
          /\ ents[e].shape = Cube(Half)
          /\ ents[e].velocity = ZERO
          /\ ents[e].hitbox.min[2] = FloorTopU + 550
          /\ ents[e].position[2] = FloorTopU + Half + 24

EntityEventsOf(evs, a, b) == SelectSeq(evs, LAMBDA ev : ev.entity1 = a /\ ev.entity2 = b)

(* The entity has an entity collision config without override and index 0  *)
(* holds exactly one entry for it, under its current hitbox.               *)
Registered(e) ==
    /\ ents[e].entity_collision_config = Some(EntityCollisionConfig(None))
    /\ Len(SelectSeq(built[ENTITY_ENTITY_BVH_IDX].entries,
                     LAMBDA en : en.entity = e)) = 1
    /\ \E k \in DOMAIN built[ENTITY_ENTITY_BVH_IDX].entries :
          built[ENTITY_ENTITY_BVH_IDX].entries[k] = EntityBvhEntry(e, ents[e].hitbox)

(* Two different registered entities whose hitboxes overlap. *)
OverlappingPair(a, b) ==
    /\ a # b
    /\ Registered(a) /\ Registered(b)
    /\ Overlaps(ents[a].hitbox, ents[b].hitbox)

C8_AtMostThreePasses ==
    \A e \in DOMAIN passes :
       /\ passes[e] <= 3
       /\ Len(BlockEventsOf(blockEvents, e)) <= 3

(* C8 witness: an entity whose three passes each found a collision, with   *)
(* three different blocks on three different axes.                         *)
C8_Witness ==
    /\ PhysicsDone
    /\ \E e \in DOMAIN passes :
          /\ passes[e] = 3
          /\ Len(BlockEventsOf(blockEvents, e)) = 3
          /\ Cardinality({ blockEvents[k].block_pos : k \in DOMAIN blockEvents }) = 3
          /\ Cardinality({ blockEvents[k].block_face_bitmap : k \in DOMAIN blockEvents }) = 3

(* The entity's state when at most k passes of this run's loop are done. *)
AfterPasses(e, k) ==
    LET b == ents[e]
    IN  resolve_loop([position |-> b.position, velocity |-> integrate(b),
                      events |-> <<>>, passes |-> 0],
                     e, b.stop_on_block_collision,
                     IF b.block_collision_config.val.block_collider_hitbox.some
                     THEN b.block_collision_config.val.block_collider_hitbox.val
                     ELSE b.hitbox,
                     k)

(* The axis a face lies on. *)
AxisOfFace(f) ==
    CASE f \in {"West", "East"}   -> 1
      [] f \in {"Down", "Up"}     -> 2
      [] f \in {"North", "South"} -> 3

(* Pass k of entity e met a block. *)
PassCollides(e, k) == Len(AfterPasses(e, k).events) = k

(* The stop configuration of e names a face of the collision of pass k. *)
StopNamesFace(e, k) ==
    /\ ents[e].stop_on_block_collision.some
    /\ \E f \in FacesOf(AfterPasses(e, k).events[k].block_face_bitmap) :
          should_stop(ents[e].stop_on_block_collision.val, f)

(* C11: after a pass whose collision has a face that the entity's stop     *)
(* configuration names, the whole velocity is zero and the run ends with   *)
(* the position of that pass; after a pass whose collision has no such     *)
(* face (or without a stop configuration) the velocity is zero on the      *)
(* axes of the collision's faces and as before on the others.              *)
C11_StopZeroesAllElseControlling ==
    [][PhysicsRuns =>
          \A e \in DOMAIN ents :
             ents[e].block_collision_config.some =>
                \A k \in 1 .. MaxPasses :
                   PassCollides(e, k) =>
                      LET before == AfterPasses(e, k - 1)
                          after  == AfterPasses(e, k)
                          faces  == FacesOf(after.events[k].block_face_bitmap)
                      IN  IF StopNamesFace(e, k)
                          THEN /\ after.velocity = ZERO
                               /\ ents'[e].velocity = ZERO
                               /\ ents'[e].position = after.position
                               /\ Len(BlockEventsOf(blockEvents', e)) = k
                          ELSE after.velocity =
                                 [i \in Axes |->
                                    IF \E f \in faces : AxisOfFace(f) = i
                                    THEN 0 ELSE before.velocity[i]]]_vars

(* C11 witness: an entity that moved sideways while it fell has met the    *)
(* floor with a stop configuration for the top face and has no velocity    *)
(* left on any axis.                                                       *)
C11_Witness ==
    /\ PhysicsDone
    /\ blocks = FloorWorld
    /\ \E e \in DOMAIN ents :
          /\ ents[e].stop_on_block_collision = Some(StopOnBlockCollision_ground)
          /\ ents[e].acceleration.some
          /\ ents[e].position[1] > Half
          /\ ents[e].velocity = ZERO
          /\ Len(BlockEventsOf(blockEvents, e)) = 1
          /\ blockEvents[1].block_face_bitmap = FaceBit("Up")

(* The other half of the case of C11: a collision with a wall under a stop *)
(* configuration for the top face alone leaves the entity falling.         *)
C11_WitnessDisjoint ==
    /\ PhysicsDone
    /\ \E e \in DOMAIN ents :
          /\ ents[e].stop_on_block_collision = Some(StopOnBlockCollision_ground)
          /\ ents[e].velocity[2] # 0
          /\ \E k \in DOMAIN blockEvents :
                /\ blockEvents[k].entity = e
                /\ "Up" \notin FacesOf(blockEvents[k].block_face_bitmap)

-----------------------------------------------------------------------------
(* The registry on its own: lookups by id, registered or not. *)

MaxBvhs == 3

(* insert_resource(BvhResource::with_bvhs(2)) *)
PluginBvhs == 2

RegEntryLists ==
    { <<>>,
      <<EntityBvhEntry(1, Aabb(<<0, 0, 0>>, <<1, 1, 1>>))>>,
      <<EntityBvhEntry(1, Aabb(<<0, 0, 0>>, <<1, 1, 1>>)),
        EntityBvhEntry(2, Aabb(<<3, 0, 0>>, <<4, 1, 1>>))>> }

RegInit ==
    /\ \E num \in 0 .. MaxBvhs :
          /\ bvhs  = with_bvhs(num)
          /\ built = [i \in 0 .. (num - 1) |-> NoBuild]
    /\ out   = NoQuery
    /\ swIn  = None
    /\ swOut = None
    /\ ents  = <<>>
    /\ blocks = {}
    /\ order = "physics_first"
    /\ pc    = "pre"
    /\ blockEvents  = <<>>
    /\ entityEvents = <<>>
    /\ passes = <<>>
    /\ sched  = NoSystems
    /\ fall   = NoFall
    /\ hurt   = NoHurt
    /\ talk   = NoTalk
    /\ build  = NoBuilding
    /\ combat = NoCombat
    /\ chat   = NoChat
    /\ stops  = NoStop

(* bvh[id] *)
RegIndex(id) ==
    /\ out' = [op |-> "index", id |-> id, result |-> Index(bvhs, id)]
    /\ UNCHANGED <<bvhs, built>>

(* bvh.get_mut(id) *)
RegGetMut(id) ==
    /\ out' = [op |-> "get_mut", id |-> id, result |-> get_mut(bvhs, id)]
    /\ UNCHANGED <<bvhs, built>>

(* bvh.get_mut(id).unwrap().build(entries), as rebuild_bvh does it *)
RegBuild(id, entries) ==
    LET got == get_mut(bvhs, id)
    IN  IF got.some
        THEN /\ bvhs'  = [bvhs EXCEPT ![id] = Bvh_build(got.val, entries)]
             /\ built' = [built EXCEPT ![id] =
                             [entries    |-> entries,
                              hadEntries |-> @.hadEntries \/ entries # <<>>]]
             /\ out'   = [op |-> "build", id |-> id, result |-> [panic |-> FALSE]]
        ELSE /\ out'   = [op |-> "build", id |-> id, result |-> [panic |-> TRUE]]
             /\ UNCHANGED <<bvhs, built>>

RegNext ==
    \/ \E id \in 0 .. MaxBvhs : RegIndex(id) /\ UNCHANGED <<sweptVars, physVars, schedVars, stopVars, chatVars, combatVars, buildVars, talkVars, hurtVars, fallVars>>
    \/ \E id \in 0 .. MaxBvhs : RegGetMut(id) /\ UNCHANGED <<sweptVars, physVars, schedVars, stopVars, chatVars, combatVars, buildVars, talkVars, hurtVars, fallVars>>
    \/ \E id \in 0 .. MaxBvhs, es \in RegEntryLists :
          RegBuild(id, es) /\ UNCHANGED <<sweptVars, physVars, schedVars, stopVars, chatVars, combatVars, buildVars, talkVars, hurtVars, fallVars>>

SpecRegistry == RegInit /\ [][RegNext]_vars

(* The ids physics_system, rebuild_bvh and on_try_place_default look up. *)
SystemIds == {ENTITY_ENTITY_BVH_IDX, ENTITY_BLOCK_BVH_IDX}

(* C12: with_bvhs(n) registers the ids 0 .. n-1 and no other, each empty;  *)
(* bvh[id] panics and get_mut(id) is None exactly for an id that is not    *)
(* registered, and no lookup registers an id; in the registry of the       *)
(* plugin the ids the systems look up are registered, so their lookups     *)
(* neither panic nor yield None.                                           *)
C12_UnregisteredIdFails ==
    [][/\ DOMAIN bvhs = 0 .. (Cardinality(DOMAIN bvhs) - 1)
       /\ DOMAIN bvhs' = DOMAIN bvhs
       /\ \A n \in 0 .. MaxBvhs :
             /\ DOMAIN with_bvhs(n) = 0 .. (n - 1)
             /\ \A i \in DOMAIN with_bvhs(n) : with_bvhs(n)[i] = BvhDefault
       /\ out'.op = "index" =>
             /\ out'.result.panic <=> out'.id \notin 0 .. (Cardinality(DOMAIN bvhs) - 1)
             /\ ~out'.result.panic => out'.result.val = bvhs[out'.id]
       /\ out'.op = "get_mut" =>
             /\ ~out'.result.some <=> out'.id \notin 0 .. (Cardinality(DOMAIN bvhs) - 1)
             /\ out'.result.some => out'.result.val = bvhs[out'.id]
       /\ (DOMAIN bvhs = DOMAIN with_bvhs(PluginBvhs) /\ out'.id \in SystemIds) =>
             /\ out'.op \in {"index", "build"} => ~out'.result.panic
             /\ out'.op = "get_mut" => out'.result.some]_vars

(* C12 witness: a lookup of id 2 in the registry of the plugin has         *)
(* panicked, after the indices 0 and 1 had been built.                     *)
C12_Witness ==
    /\ DOMAIN bvhs = 0 .. 1
    /\ built[ENTITY_ENTITY_BVH_IDX].hadEntries
    /\ built[ENTITY_BLOCK_BVH_IDX].hadEntries
    /\ out.op = "index"
    /\ out.id = 2
    /\ out.result.panic

-----------------------------------------------------------------------------
(* The indices and the entities' lifecycle: between two runs of            *)
(* rebuild_bvh entities are despawned and gain or lose the collision       *)
(* configs.                                                                *)

MaxBodies == 2

(* A resting entity in the air, with or without each of the two configs. *)
LifeBody(k, ec, bc) ==
    Body(<<Half + 2 * BlockSize * k, (FloorTop + 2) * BlockSize, Half>>, ZERO,
         Cfg(None, None, None, None), Cube(Half),
         IF ec THEN Some(EntityCollisionConfig(None)) ELSE None,
         IF bc THEN Some(BlockCollisionConfig(None)) ELSE None)

LifeInit ==
    /\ \E ec, bc \in [1 .. MaxBodies -> BOOLEAN] :
          ents = [k \in 1 .. MaxBodies |-> LifeBody(k, ec[k], bc[k])]
    /\ blocks = FloorWorld
    /\ order  = "rebuild_first"
    /\ pc     = "pre"
    /\ blockEvents  = <<>>
    /\ entityEvents = <<>>
    /\ passes = <<>>
    /\ sched  = NoSystems
    /\ fall   = NoFall
    /\ hurt   = NoHurt
    /\ talk   = NoTalk
    /\ build  = NoBuilding
    /\ combat = NoCombat
    /\ chat   = NoChat
    /\ stops  = NoStop
    /\ bvhs   = with_bvhs(PluginBvhs)
    /\ built  = [i \in 0 .. (PluginBvhs - 1) |-> NoBuild]
    /\ out    = NoQuery
    /\ swIn   = None
    /\ swOut  = None

(* The run of rebuild_bvh of a tick. *)
LifeRebuild ==
    /\ rebuild_bvh
    /\ pc' = "post"
    /\ UNCHANGED <<sweptVars, schedVars, stopVars, chatVars, combatVars, buildVars, talkVars, hurtVars, fallVars>>

(* commands.entity(e).insert(Despawned), applied before the next tick *)
Despawn(e) ==
    /\ ents' = [k \in DOMAIN ents \ {e} |-> ents[k]]
    /\ pc'   = "pre"
    /\ UNCHANGED <<bvhs, built, out, blocks, order, blockEvents, entityEvents, passes,
                   sweptVars, schedVars, stopVars, chatVars, combatVars, buildVars, talkVars, hurtVars, fallVars>>

(* commands.entity(e).insert(..) / remove::<..>() of EntityCollisionConfig *)
SetEntityCollisionConfig(e, cfg) ==
    /\ ents[e].entity_collision_config # cfg
    /\ ents' = [ents EXCEPT ![e].entity_collision_config = cfg]
    /\ pc'   = "pre"
    /\ UNCHANGED <<bvhs, built, out, blocks, order, blockEvents, entityEvents, passes,
                   sweptVars, schedVars, stopVars, chatVars, combatVars, buildVars, talkVars, hurtVars, fallVars>>

(* commands.entity(e).insert(..) / remove::<..>() of BlockCollisionConfig *)
SetBlockCollisionConfig(e, cfg) ==
    /\ ents[e].block_collision_config # cfg
    /\ ents' = [ents EXCEPT ![e].block_collision_config = cfg]
    /\ pc'   = "pre"
    /\ UNCHANGED <<bvhs, built, out, blocks, order, blockEvents, entityEvents, passes,
                   sweptVars, schedVars, stopVars, chatVars, combatVars, buildVars, talkVars, hurtVars, fallVars>>

LifeNext ==
    \/ LifeRebuild
    \/ \E e \in DOMAIN ents : Despawn(e)
    \/ \E e \in DOMAIN ents, cfg \in {None, Some(EntityCollisionConfig(None))} :
          SetEntityCollisionConfig(e, cfg)
    \/ \E e \in DOMAIN ents, cfg \in {None, Some(BlockCollisionConfig(None))} :
          SetBlockCollisionConfig(e, cfg)

SpecLife == LifeInit /\ [][LifeNext]_vars

(* A box that holds every entity of the model. *)
Everywhere ==
    Aabb(<<-(4 * MaxBodies + 4) * BlockSize, 0, -(4 * MaxBodies + 4) * BlockSize>>,
         <<(4 * MaxBodies + 4) * BlockSize, (FloorTop + 8) * BlockSize,
           (4 * MaxBodies + 4) * BlockSize>>)

(* What a query for everything finds in index id. *)
Indexed(id) == get_in_range(bvhs[id], Everywhere)

(* Index id holds one entry for each entity of S and no other entry. *)
HoldsExactly(id, S) ==
    /\ \A e \in S : Len(SelectSeq(Indexed(id), LAMBDA en : en.entity = e)) = 1
    /\ \A k \in DOMAIN Indexed(id) : Indexed(id)[k].entity \in S

(* C13 as stated: when rebuild_bvh has run in the tick, index 0 holds one  *)
(* entry for each entity with an EntityCollisionConfig and no other, and   *)
(* index 1 one entry for each entity with a BlockCollisionConfig and no    *)
(* other.                                                                  *)
C13_IndicesHoldTheOptedIn ==
    pc = "post" =>
       /\ HoldsExactly(ENTITY_ENTITY_BVH_IDX,
                       { e \in DOMAIN ents : ents[e].entity_collision_config.some })
       /\ HoldsExactly(ENTITY_BLOCK_BVH_IDX,
                       { e \in DOMAIN ents : ents[e].block_collision_config.some })

(* What rebuild_bvh does keep: the same, in the ticks in which at least    *)
(* one entity has one of the two configs.                                  *)
C13_HoldsWhileSomeoneOptsIn ==
    (/\ pc = "post"
     /\ \E e \in DOMAIN ents : \/ ents[e].entity_collision_config.some
                               \/ ents[e].block_collision_config.some)
       => C13_IndicesHoldTheOptedIn

(* C13 witness: rebuild_bvh has run with no entity opted in and both       *)
(* indices still hold entries.                                             *)
C13_Witness ==
    /\ pc = "post"
    /\ \A e \in DOMAIN ents : /\ ~ents[e].entity_collision_config.some
                              /\ ~ents[e].block_collision_config.some
    /\ Indexed(ENTITY_ENTITY_BVH_IDX) # <<>>
    /\ Indexed(ENTITY_BLOCK_BVH_IDX) # <<>>

-----------------------------------------------------------------------------
(* The events of a run of physics_system *)

(* The block collision events the passes of e send in this run. *)
SentBy(e) ==
    IF ents[e].block_collision_config.some
    THEN AfterPasses(e, MaxPasses).events ELSE <<>>

-----------------------------------------------------------------------------
(* The schedule: the three systems are started in any order and run side   *)
(* by side whenever their accesses to the BvhResource allow it.            *)

MaxWork  == 2
MaxTicks == 2

SchedInit ==
    /\ sched  = NoSystems
    /\ fall   = NoFall
    /\ hurt   = NoHurt
    /\ talk   = NoTalk
    /\ build  = NoBuilding
    /\ combat = NoCombat
    /\ chat   = NoChat
    /\ stops  = NoStop
    /\ bvhs   = with_bvhs(PluginBvhs)
    /\ built  = [i \in 0 .. (PluginBvhs - 1) |-> NoBuild]
    /\ out    = NoQuery
    /\ swIn   = None
    /\ swOut  = None
    /\ ents   = <<>>
    /\ blocks = {}
    /\ order  = "physics_first"
    /\ pc     = "pre"
    /\ blockEvents  = <<>>
    /\ entityEvents = <<>>
    /\ passes = <<>>

(* The schedule starts s: no running system conflicts with it.  A run of   *)
(* physics_system or build_system makes up to MaxWork queries; a run of    *)
(* rebuild_bvh returns early or builds the two indices.                    *)
Start(s, n) ==
    /\ sched.sys[s].pc = "idle"
    /\ \A t \in SchedSystems \ {s} : Active(sched, t) => ~conflicts(s, t)
    /\ s = "rebuild_bvh" => n \in {0, 2}
    /\ sched' = [sched EXCEPT !.sys[s] = [pc |-> "run", left |-> n, id |-> 0, seen |-> 0]]

(* get_in_range returns its iterator. *)
BeginQuery(s) ==
    /\ s # "rebuild_bvh"
    /\ sched.sys[s].pc = "run"
    /\ sched.sys[s].left > 0
    /\ sched' = [sched EXCEPT !.sys[s].pc = "query",
                              !.sys[s].id = queried(s),
                              !.sys[s].seen = sched.tree[queried(s)].version]

(* The iterator is exhausted or dropped. *)
EndQuery(s) ==
    /\ sched.sys[s].pc = "query"
    /\ sched' = [sched EXCEPT !.sys[s].pc = "run", !.sys[s].left = @ - 1]

(* build begins to replace the tree of the next index. *)
BeginBuild ==
    /\ sched.sys["rebuild_bvh"].pc = "run"
    /\ sched.sys["rebuild_bvh"].left > 0
    /\ LET id == IF sched.sys["rebuild_bvh"].left = 2
                 THEN ENTITY_ENTITY_BVH_IDX ELSE ENTITY_BLOCK_BVH_IDX
       IN  sched' = [sched EXCEPT !.sys["rebuild_bvh"].pc = "build",
                                  !.sys["rebuild_bvh"].id = id,
                                  !.tree[id].building = TRUE]

(* The new tree is in place. *)
EndBuild ==
    /\ sched.sys["rebuild_bvh"].pc = "build"
    /\ LET id == sched.sys["rebuild_bvh"].id
       IN  sched' = [sched EXCEPT !.sys["rebuild_bvh"].pc = "run",
                                  !.sys["rebuild_bvh"].left = @ - 1,
                                  !.tree[id] = [version |-> @.version + 1,
                                                building |-> FALSE]]

Finish(s) ==
    /\ sched.sys[s].pc = "run"
    /\ sched.sys[s].left = 0
    /\ sched' = [sched EXCEPT !.sys[s].pc = "done"]

(* Every system has run: the next tick begins. *)
NextTick ==
    /\ \A s \in SchedSystems : sched.sys[s].pc = "done"
    /\ sched.tick < MaxTicks
    /\ sched' = [sched EXCEPT !.sys = NoSystems.sys, !.tick = @ + 1]

SchedNext ==
    \/ \E s \in SchedSystems, n \in 0 .. MaxWork :
          Start(s, n) /\ UNCHANGED <<bvhVars, sweptVars, physVars, stopVars, chatVars, combatVars, buildVars, talkVars, hurtVars, fallVars>>
    \/ \E s \in SchedSystems : BeginQuery(s) /\ UNCHANGED <<bvhVars, sweptVars, physVars, stopVars, chatVars, combatVars, buildVars, talkVars, hurtVars, fallVars>>
    \/ \E s \in SchedSystems : EndQuery(s) /\ UNCHANGED <<bvhVars, sweptVars, physVars, stopVars, chatVars, combatVars, buildVars, talkVars, hurtVars, fallVars>>
    \/ BeginBuild /\ UNCHANGED <<bvhVars, sweptVars, physVars, stopVars, chatVars, combatVars, buildVars, talkVars, hurtVars, fallVars>>
    \/ EndBuild /\ UNCHANGED <<bvhVars, sweptVars, physVars, stopVars, chatVars, combatVars, buildVars, talkVars, hurtVars, fallVars>>
    \/ \E s \in SchedSystems : Finish(s) /\ UNCHANGED <<bvhVars, sweptVars, physVars, stopVars, chatVars, combatVars, buildVars, talkVars, hurtVars, fallVars>>
    \/ NextTick /\ UNCHANGED <<bvhVars, sweptVars, physVars, stopVars, chatVars, combatVars, buildVars, talkVars, hurtVars, fallVars>>

SpecSched == SchedInit /\ [][SchedNext]_vars

(* C15: while a get_in_range is in progress no build of any index of the   *)
(* BvhResource is in progress, and the tree the query reads is the one it  *)
(* began with: complete and of the same version.                           *)
C15_NoQueryDuringBuild ==
    \A s \in SchedSystems :
       sched.sys[s].pc = "query" =>
          /\ \A i \in DOMAIN sched.tree : ~sched.tree[i].building
          /\ sched.tree[sched.sys[s].id].version = sched.sys[s].seen
          /\ sched.sys["rebuild_bvh"].pc \notin {"run", "build"}

(* C15 witness: build_system is in a query of index 1, which rebuild_bvh   *)
(* has built before, while rebuild_bvh and physics_system wait for their   *)
(* turn of this tick.                                                      *)
C15_Witness ==
    /\ sched.sys["build_system"].pc = "query"
    /\ sched.sys["build_system"].id = ENTITY_BLOCK_BVH_IDX
    /\ sched.tree[ENTITY_BLOCK_BVH_IDX].version > 0
    /\ sched.sys["rebuild_bvh"].pc = "idle"
    /\ sched.sys["physics_system"].pc = "idle"

-----------------------------------------------------------------------------
(* The order of physics_system and rebuild_bvh *)

(* Every query of a run of physics_system reads the index as it was when   *)
(* the run began.                                                          *)
QueriesSeeOneIndex ==
    PhysicsRuns =>
       LET ids == Ascending(DOMAIN ents)
       IN  /\ bvhs' = bvhs
           /\ entityEvents' =
                 Flatten([k \in 1 .. Len(ids) |-> entity_collisions(ids[k], ents[ids[k]])])

(* C16 as stated: all entity-entity queries of a tick read the same index  *)
(* contents, and physics_system and rebuild_bvh run in the same order in   *)
(* every tick.                                                             *)
C16_OneOrderInEveryTick ==
    [][QueriesSeeOneIndex /\ order' = order]_vars

(* The part of C16 the code keeps: the queries of one run read one index. *)
C16_QueriesOfARunSeeOneIndex == [][QueriesSeeOneIndex]_vars

(* C16 witness: a tick of the falling entity, whose first tick ran         *)
(* physics_system first, has run rebuild_bvh first.                        *)
C16_Witness ==
    /\ pc = "post"
    /\ order = "rebuild_first"
    /\ blocks = FloorWorld
    /\ DOMAIN ents = {1}
    /\ ents[1].block_collision_config.some

-----------------------------------------------------------------------------
(* Entities without a collision config *)

(* C17: in a run of physics_system an entity without BlockCollisionConfig  *)
(* sends no block collision event and ends with the integrated velocity at *)
(* its position advanced by it, whatever blocks are in its way; an entity  *)
(* without EntityCollisionConfig is entity1 of no entity collision event;  *)
(* and every entity, with or without the configs, gets the events and the  *)
(* motion of its own step.                                                 *)
C17_MissingConfigSkipsItsPartOnly ==
    [][PhysicsRuns =>
          \A e \in DOMAIN ents :
             LET b == ents[e]
             IN  /\ ~b.block_collision_config.some =>
                       /\ BlockEventsOf(blockEvents', e) = <<>>
                       /\ ents'[e].velocity = integrate(b)
                       /\ ents'[e].position =
                             VAdd(b.position, velocity_delta(integrate(b)))
                 /\ ~b.entity_collision_config.some =>
                       \A k \in DOMAIN entityEvents' : entityEvents'[k].entity1 # e
                 /\ b.block_collision_config.some =>
                       /\ BlockEventsOf(blockEvents', e) = SentBy(e)
                       /\ ents'[e].velocity = AfterPasses(e, MaxPasses).velocity
                       /\ ents'[e].position =
                             VAdd(AfterPasses(e, MaxPasses).position,
                                  velocity_delta(AfterPasses(e, MaxPasses).velocity))
                 /\ b.entity_collision_config.some =>
                       SelectSeq(entityEvents', LAMBDA ev : ev.entity1 = e)
                          = entity_collisions(e, b)]_vars

(* C17 witness: in one run an entity without BlockCollisionConfig has      *)
(* moved down into the floor and keeps its velocity, while the other       *)
(* entity has met three blocks.                                            *)
C17_Witness ==
    /\ PhysicsDone
    /\ DOMAIN ents = {1, 2}
    /\ ~ents[2].block_collision_config.some
    /\ ~ents[2].entity_collision_config.some
    /\ ents[2].velocity[2] < 0
    /\ \E c \in blocks : Sunk(translate(ents[2].shape, ents[2].position), c)
    /\ Len(BlockEventsOf(blockEvents, 1)) = 3
    /\ BlockEventsOf(blockEvents, 2) = <<>>

-----------------------------------------------------------------------------
(* The candidate cells of a pass *)

(* The box a run of physics_system tests blocks against. *)
ColliderOf(b) ==
    IF b.block_collision_config.val.block_collider_hitbox.some
    THEN b.block_collision_config.val.block_collider_hitbox.val
    ELSE b.hitbox

(* st is the state after k - 1 passes and pass k begins: it is the first   *)
(* pass or every pass before it met a block.                               *)
PassBegins(st, k) == k = 1 \/ Len(st.events) = k - 1

(* floor(x / BlockSize): the cell a coordinate lies in. *)
CellOf(x) == x \div BlockSize

(* C18: in a run of physics_system, on every axis the candidate range of   *)
(* every pass is not empty, holds the cell of the position and the cell of *)
(* the position moved by the pass's displacement (as `as i32` gives them,  *)
(* and as floor gives them), and has |destination cell - current cell|     *)
(* + 2 * (width / 2 as i32) + 4 cells, the cells being those `as i32`      *)
(* gives.                                                                  *)
C18_CandidateRangeIsBounded ==
    [][PhysicsRuns =>
          \A e \in DOMAIN ents :
             ents[e].block_collision_config.some =>
                \A k \in 1 .. MaxPasses :
                   LET st  == AfterPasses(e, k - 1)
                       vd  == velocity_delta(st.velocity)
                       hb  == ColliderOf(ents[e])
                   IN  PassBegins(st, k) =>
                          \A i \in Axes :
                             LET r   == AxisRange(st.position, vd, hb, i)
                                 cur == as_i32(st.position[i])
                                 dst == as_i32(st.position[i] + vd[i])
                             IN  /\ r # {}
                                 /\ {cur, dst} \subseteq r
                                 /\ {CellOf(st.position[i]), CellOf(st.position[i] + vd[i])}
                                       \subseteq r
                                 /\ Cardinality(r) =
                                       Abs(dst - cur) + 2 * Trunc(width(hb, i), 2 * BlockSize) + 4]_vars

(* C18 witness: physics_system has moved an entity with block collision    *)
(* from a cell of negative x into the next one.                            *)
C18_Witness ==
    /\ PhysicsDone
    /\ \E e \in DOMAIN ents :
          /\ ents[e].block_collision_config.some
          /\ passes[e] >= 1
          /\ ents[e].position[1] < 0
          /\ ents[e].velocity[1] # 0
          /\ CellOf(ents[e].position[1])
                # CellOf(ents[e].position[1] - velocity_delta(ents[e].velocity)[1])

(* The cells a box occupies or touches on axis i. *)
Footprint(box, i) == CellOf(box.min[i]) .. CellOf(box.max[i])

(* C19 as stated: in a run of physics_system, on an axis without velocity  *)
(* the candidate range of a pass holds cells of the entity's own footprint *)
(* only.                                                                   *)
C19_RestingAxisRangeIsFootprint ==
    [][PhysicsRuns =>
          \A e \in DOMAIN ents :
             ents[e].block_collision_config.some =>
                \A k \in 1 .. MaxPasses :
                   LET st == AfterPasses(e, k - 1)
                       vd == velocity_delta(st.velocity)
                       hb == ColliderOf(ents[e])
                   IN  PassBegins(st, k) =>
                          \A i \in Axes :
                             st.velocity[i] = 0 =>
                                AxisRange(st.position, vd, hb, i) \subseteq Footprint(hb, i)]_vars

(* C19: in a run of physics_system, on an axis without velocity the        *)
(* candidate range of a pass is the cell of the position with              *)
(* width / 2 as i32 + 2 cells below it and width / 2 as i32 + 1 cells      *)
(* above it: no cell is added for displacement, and in the first pass of   *)
(* an entity whose box is its Hitbox the range holds the footprint and     *)
(* more.                                                                   *)
C19_RestingAxisRangeIsFixedMargin ==
    [][PhysicsRuns =>
          \A e \in DOMAIN ents :
             ents[e].block_collision_config.some =>
                \A k \in 1 .. MaxPasses :
                   LET st == AfterPasses(e, k - 1)
                       vd == velocity_delta(st.velocity)
                       hb == ColliderOf(ents[e])
                   IN  PassBegins(st, k) =>
                          \A i \in Axes :
                             st.velocity[i] = 0 =>
                                LET r     == AxisRange(st.position, vd, hb, i)
                                    cur   == as_i32(st.position[i])
                                    steps == Trunc(width(hb, i), 2 * BlockSize)
                                IN  /\ r = (cur - (steps + 2)) .. (cur + (steps + 1))
                                    /\ (k = 1 /\ hb = translate(ents[e].shape, ents[e].position))
                                          => /\ Footprint(hb, i) \subseteq r
                                             /\ Footprint(hb, i) # r]_vars

(* C19 witness: physics_system has run on an entity with block collision   *)
(* that falls straight down: its next run has no velocity on x and z.      *)
C19_Witness ==
    /\ PhysicsDone
    /\ \E e \in DOMAIN ents :
          /\ ents[e].block_collision_config.some
          /\ integrate(ents[e])[1] = 0
          /\ integrate(ents[e])[3] = 0
          /\ integrate(ents[e])[2] < 0
          /\ passes[e] >= 1

-----------------------------------------------------------------------------
(* StopOnBlockCollision as a value: a Vec<Direction> is given, one of the  *)
(* constructors makes the configuration, and it is asked about a face or   *)
(* about a bitmap.  A bitmap is any u8.                                    *)

MaxFaces == 2

FaceLists == UNION { [1 .. n -> Directions] : n \in 0 .. MaxFaces }

StopInit ==
    /\ stops \in { [faces |-> fs, stop |-> None, answer |-> None] : fs \in FaceLists }
    /\ sched  = NoSystems
    /\ fall   = NoFall
    /\ hurt   = NoHurt
    /\ talk   = NoTalk
    /\ build  = NoBuilding
    /\ combat = NoCombat
    /\ chat   = NoChat
    /\ bvhs   = with_bvhs(PluginBvhs)
    /\ built  = [i \in 0 .. (PluginBvhs - 1) |-> NoBuild]
    /\ out    = NoQuery
    /\ swIn   = None
    /\ swOut  = None
    /\ ents   = <<>>
    /\ blocks = {}
    /\ order  = "physics_first"
    /\ pc     = "pre"
    /\ blockEvents  = <<>>
    /\ entityEvents = <<>>
    /\ passes = <<>>

StopNew ==
    stops' = [stops EXCEPT
                !.stop = Some([by |-> "new",
                               mask |-> StopOnBlockCollision_new(stops.faces)]),
                !.answer = None]

StopGround ==
    stops' = [stops EXCEPT
                !.stop = Some([by |-> "ground", mask |-> StopOnBlockCollision_ground]),
                !.answer = None]

StopAll ==
    stops' = [stops EXCEPT
                !.stop = Some([by |-> "all", mask |-> StopOnBlockCollision_all]),
                !.answer = None]

(* The questions take &self: one question per constructed value shows all  *)
(* that any number of them would.                                          *)
ShouldStop(face) ==
    /\ stops.stop.some
    /\ ~stops.answer.some
    /\ stops' = [stops EXCEPT
                   !.answer = Some([face |-> Some(face), bitmap |-> None,
                                    val |-> should_stop(stops.stop.val.mask, face)])]

ShouldStopBitmap(bitmap) ==
    /\ stops.stop.some
    /\ ~stops.answer.some
    /\ stops' = [stops EXCEPT
                   !.answer = Some([face |-> None, bitmap |-> Some(bitmap),
                                    val |-> should_stop_bitmap(stops.stop.val.mask,
                                                               bitmap)])]

StopNext ==
    \/ StopNew /\ UNCHANGED <<bvhVars, sweptVars, physVars, schedVars, chatVars, combatVars, buildVars, talkVars, hurtVars, fallVars>>
    \/ StopGround /\ UNCHANGED <<bvhVars, sweptVars, physVars, schedVars, chatVars, combatVars, buildVars, talkVars, hurtVars, fallVars>>
    \/ StopAll /\ UNCHANGED <<bvhVars, sweptVars, physVars, schedVars, chatVars, combatVars, buildVars, talkVars, hurtVars, fallVars>>
    \/ \E face \in Directions :
          ShouldStop(face) /\ UNCHANGED <<bvhVars, sweptVars, physVars, schedVars, chatVars, combatVars, buildVars, talkVars, hurtVars, fallVars>>
    \/ \E bitmap \in 0 .. U8_MAX :
          ShouldStopBitmap(bitmap) /\ UNCHANGED <<bvhVars, sweptVars, physVars, schedVars, chatVars, combatVars, buildVars, talkVars, hurtVars, fallVars>>

SpecStop == StopInit /\ [][StopNext]_vars

(* The answers about a face: new(F) stops on the faces of F and no other,  *)
(* ground() on Up and no other, all() on each of the six.                  *)
FaceAnswerIsMembership ==
    (stops.answer.some /\ stops.answer.val.face.some) =>
       LET f   == stops.answer.val.face.val
           val == stops.answer.val.val
           by  == stops.stop.val.by
       IN  CASE by = "new"    -> val <=> \E n \in DOMAIN stops.faces : stops.faces[n] = f
             [] by = "ground" -> val <=> f = "Up"
             [] by = "all"    -> val

(* Some face that the bitmap encodes is a face the configuration stops on. *)
SomeEncodedFaceStops(mask, bitmap) ==
    \E f \in FacesOf(bitmap) : should_stop(mask, f)

(* C20 as stated: the answers about a face are membership in the face set, *)
(* and should_stop_bitmap(b) is true exactly when a face encoded in b      *)
(* satisfies should_stop, whatever the constructor and the u8 b.           *)
C20_FaithfulFaceSet ==
    /\ FaceAnswerIsMembership
    /\ (stops.answer.some /\ stops.answer.val.bitmap.some) =>
          (stops.answer.val.val <=>
             SomeEncodedFaceStops(stops.stop.val.mask, stops.answer.val.bitmap.val))

(* C20: the answers about a face are membership in the face set; for a     *)
(* configuration made by new or ground, should_stop_bitmap(b) is true      *)
(* exactly when a face encoded in b satisfies should_stop; for all() it is *)
(* true exactly when b is not zero, which is the same for a b that encodes *)
(* a face and differs for a b whose only bits encode none.                 *)
C20_FaceSetWithAllAnsweringAnyBit ==
    /\ FaceAnswerIsMembership
    /\ (stops.answer.some /\ stops.answer.val.bitmap.some) =>
          LET b    == stops.answer.val.bitmap.val
              val  == stops.answer.val.val
              mask == stops.stop.val.mask
          IN  IF stops.stop.val.by = "all"
              THEN /\ val <=> b # 0
                   /\ FacesOf(b) # {} => (val <=> SomeEncodedFaceStops(mask, b))
              ELSE val <=> SomeEncodedFaceStops(mask, b)

(* C20 witness: a configuration made by new from two different faces       *)
(* answers true for a bitmap that encodes one of them and a third face.    *)
C20_Witness ==
    /\ stops.stop.some
    /\ stops.stop.val.by = "new"
    /\ Len(stops.faces) = 2
    /\ stops.faces[1] # stops.faces[2]
    /\ stops.answer.some
    /\ stops.answer.val.bitmap.some
    /\ stops.answer.val.val
    /\ LET fs == FacesOf(stops.answer.val.bitmap.val)
       IN  /\ stops.faces[1] \in fs
           /\ stops.faces[2] \notin fs
           /\ \E f \in fs : f # stops.faces[1]

-----------------------------------------------------------------------------
(* Vec3::length_squared *)
length_squared(v) == v[1] * v[1] + v[2] * v[2] + v[3] * v[3]

WithinLimit(v, limit) == length_squared(v) <= limit * limit

(* C21: in a run of physics_system, for an entity with a SpeedLimit the    *)
(* velocity after drag, acceleration and the limit is no longer than the   *)
(* limit; so is the velocity every resolution pass leaves, the velocity    *)
(* stored at the end, and the last advance of the position is by the       *)
(* stored velocity.                                                        *)
C21_VelocityWithinSpeedLimit ==
    [][PhysicsRuns =>
          \A e \in DOMAIN ents :
             ents[e].speed_limit.some =>
                LET limit == ents[e].speed_limit.val
                IN  /\ WithinLimit(integrate(ents[e]), limit)
                    /\ WithinLimit(ents'[e].velocity, limit)
                    /\ ents[e].block_collision_config.some =>
                          /\ \A k \in 0 .. MaxPasses :
                                WithinLimit(AfterPasses(e, k).velocity, limit)
                          /\ ents'[e].position =
                                VAdd(AfterPasses(e, MaxPasses).position,
                                     velocity_delta(ents'[e].velocity))]_vars

(* C21 witness: physics_system has run for an entity with drag,            *)
(* acceleration and a speed limit, and has left it a velocity on every     *)
(* axis that is as long as the limit allows, rounding apart.               *)
C21_Witness ==
    /\ PhysicsDone
    /\ \E e \in DOMAIN ents :
          /\ ents[e].speed_limit.some
          /\ ents[e].drag.some
          /\ ents[e].acceleration.some
          /\ \A i \in Axes : ents[e].velocity[i] # 0
          /\ WithinLimit(ents[e].velocity, ents[e].speed_limit.val)
          /\ ~WithinLimit(ents[e].velocity, ents[e].speed_limit.val - 2)

-----------------------------------------------------------------------------
(* The ChatChannels resource under the calls of its public functions, for  *)
(* two players and channel ids up to MaxChannelId; add_player_to_channel   *)
(* and remove_player_from_channel are also called with an id that no       *)
(* channel ever has.                                                       *)

MaxChannelId == 1

ChatPlayers == {"p1", "p2"}

ChannelIds == 1 .. MaxChannelId

ChannelConfigs == { ChatChannelConfig(None), ChatChannelConfig(Some("!")) }

ChatInit ==
    /\ chat   = NoChat
    /\ stops  = NoStop
    /\ sched  = NoSystems
    /\ fall   = NoFall
    /\ hurt   = NoHurt
    /\ talk   = NoTalk
    /\ build  = NoBuilding
    /\ combat = NoCombat
    /\ bvhs   = with_bvhs(PluginBvhs)
    /\ built  = [i \in 0 .. (PluginBvhs - 1) |-> NoBuild]
    /\ out    = NoQuery
    /\ swIn   = None
    /\ swOut  = None
    /\ ents   = <<>>
    /\ blocks = {}
    /\ order  = "physics_first"
    /\ pc     = "pre"
    /\ blockEvents  = <<>>
    /\ entityEvents = <<>>
    /\ passes = <<>>

AddChannel(channel_id, config) ==
    chat' = [self |-> add_channel(chat.self, channel_id, config),
             call |-> Some([fn |-> "add_channel", channel_id |-> channel_id,
                            ret |-> Some(<<>>)])]

AddPlayerToChannel(channel_id, player_entity, player_config) ==
    LET r == add_player_to_channel(chat.self, channel_id, player_entity, player_config)
    IN  chat' = [self |-> r.self,
                 call |-> Some([fn |-> "add_player_to_channel", channel_id |-> channel_id,
                                player_entity |-> player_entity,
                                player_config |-> player_config, ret |-> r.ret])]

RemovePlayerFromChannel(channel_id, player_entity) ==
    LET r == remove_player_from_channel(chat.self, channel_id, player_entity)
    IN  chat' = [self |-> r.self,
                 call |-> Some([fn |-> "remove_player_from_channel",
                                channel_id |-> channel_id,
                                player_entity |-> player_entity, ret |-> r.ret])]

RemovePlayer(player_entity) ==
    chat' = [self |-> remove_player(chat.self, player_entity),
             call |-> Some([fn |-> "remove_player", player_entity |-> player_entity,
                            ret |-> Some(<<>>)])]

ChatNext ==
    \/ \E id \in ChannelIds, config \in ChannelConfigs :
          AddChannel(id, config)
          /\ UNCHANGED <<bvhVars, sweptVars, physVars, schedVars, stopVars, combatVars, buildVars, talkVars, hurtVars, fallVars>>
    \/ \E id \in 1 .. (MaxChannelId + 1), p \in ChatPlayers :
          AddPlayerToChannel(id, p, PlayerChatChannelConfig("ReadWrite"))
          /\ UNCHANGED <<bvhVars, sweptVars, physVars, schedVars, stopVars, combatVars, buildVars, talkVars, hurtVars, fallVars>>
    \/ \E id \in 1 .. (MaxChannelId + 1), p \in ChatPlayers :
          RemovePlayerFromChannel(id, p)
          /\ UNCHANGED <<bvhVars, sweptVars, physVars, schedVars, stopVars, combatVars, buildVars, talkVars, hurtVars, fallVars>>
    \/ \E p \in ChatPlayers :
          RemovePlayer(p)
          /\ UNCHANGED <<bvhVars, sweptVars, physVars, schedVars, stopVars, combatVars, buildVars, talkVars, hurtVars, fallVars>>

SpecChat == ChatInit /\ [][ChatNext]_vars

(* The latest call was add_player_to_channel. *)
AddedPlayer == chat.call.some /\ chat.call.val.fn = "add_player_to_channel"

(* C22: a call of add_player_to_channel with an id that no channel has     *)
(* returns None and changes nothing of the registry; with the id of a      *)
(* channel it returns Some(()), the player is then a member of the channel *)
(* with the given config, and the channel is in the player's prefixed set  *)
(* exactly if it has a required prefix and in the unprefixed set exactly   *)
(* if it has none.                                                         *)
C22_AddPlayerToChannel ==
    [][AddedPlayer' =>
          LET c    == chat'.call.val
              id   == c.channel_id
              p    == c.player_entity
              after == chat'.self
          IN  IF id \notin DOMAIN chat.self.channels
              THEN c.ret = None /\ after = chat.self
              ELSE /\ c.ret = Some(<<>>)
                   /\ p \in DOMAIN after.channels[id].members
                   /\ after.channels[id].members[p] = c.player_config
                   /\ p \in DOMAIN after.players_to_channels
                   /\ id \in after.players_to_channels[p].with_prefix
                         <=> after.channels[id].config.required_prefix.some
                   /\ id \in after.players_to_channels[p].without_prefix
                         <=> ~after.channels[id].config.required_prefix.some]_vars

(* C22 witness: a player has been added to a channel that had been added   *)
(* again, with a required prefix now and without one before, after the     *)
(* player had joined it for the first time.                                *)
C22_Witness ==
    /\ AddedPlayer
    /\ chat.call.val.ret = Some(<<>>)
    /\ LET id == chat.call.val.channel_id
           p  == chat.call.val.player_entity
       IN  /\ chat.self.channels[id].config.required_prefix.some
           /\ id \in chat.self.players_to_channels[p].with_prefix
           /\ id \in chat.self.players_to_channels[p].without_prefix

-----------------------------------------------------------------------------
(* Two players in combat, and an entity 3 that the query does not match.   *)
(* The clock runs up to MaxTime; every run of combat_system reads the      *)
(* events that arrived since the run before.                               *)

MaxTime == 4

(* A config whose values differ by movement state. *)
CombatConfig ==
    [hit_cooldown         |-> HitCooldown,
     horizontal_knockback |-> PlayerStateDependantValue(4, 8, 3, 6),
     vertical_knockback   |-> PlayerStateDependantValue(4, 8, 3, 6),
     horizontal_knockback_received_multiplier |-> PlayerStateDependantValue(1, 1, 1, 2),
     vertical_knockback_received_multiplier   |-> PlayerStateDependantValue(1, 1, 1, 2),
     random_critical_hit_chance     |-> PlayerStateDependantValue_always(0),
     critical_hit_chance_falling    |-> 1,
     critical_hit_damage_multiplier |-> [num |-> 3, den |-> 2],
     damage_multiplier       |-> PlayerStateDependantValue(1, 2, 3, 5),
     damage_taken_multiplier |-> PlayerStateDependantValue(1, 1, 1, 2)]

(* CombatState::default() with the config, and what the query reads with   *)
(* it: FallingState.falling and whether there are a HeldItem and an        *)
(* Inventory.                                                              *)
CombatState(armed) ==
    [last_hit      |-> 0,
     last_got_hit  |-> 0,
     last_attack   |-> 0,
     sprinting     |-> FALSE,
     sneaking      |-> FALSE,
     combat_config |-> CombatConfig,
     falling       |-> FALSE,
     armed         |-> armed]

CombatPlayers == {1, 2}

Attack(client, entity)   == [client |-> client, entity |-> entity, interact |-> "Attack"]
Interact(client, entity) == [client |-> client, entity |-> entity, interact |-> "Interact"]

(* The events of one run: a sprint or a sneak event, attack events, or     *)
(* both.                                                                   *)
MovementEvents == { [client |-> p, state |-> st] : p \in CombatPlayers, st \in {"Start", "Stop"} }

AttackBatches ==
    { <<Attack(1, 2)>>, <<Attack(2, 1)>>,
      <<Attack(1, 2), Attack(1, 2)>>, <<Attack(1, 2), Attack(2, 1)>>,
      <<Attack(2, 1), Attack(1, 2)>>, <<Attack(1, 1), Attack(1, 2)>>,
      <<Attack(1, 3), Attack(1, 2)>>, <<Attack(3, 1), Attack(2, 1)>>,
      <<Interact(1, 2), Attack(2, 1)>>, <<Interact(1, 2)>> }

CombatRuns ==
    { [sprint |-> <<ev>>, sneak |-> <<>>, attacks |-> <<>>] : ev \in MovementEvents }
    \cup { [sprint |-> <<>>, sneak |-> <<ev>>, attacks |-> <<>>] : ev \in MovementEvents }
    \cup { [sprint |-> <<>>, sneak |-> <<>>, attacks |-> as] : as \in AttackBatches }
    \cup { [sprint |-> <<[client |-> 1, state |-> "Start"]>>,
            sneak  |-> <<[client |-> 2, state |-> "Start"]>>,
            attacks |-> as] : as \in { <<Attack(1, 2)>>, <<Attack(2, 1)>> } }

CombatInit ==
    /\ \E armed \in BOOLEAN :
          combat = [now     |-> 0,
                    players |-> (1 :> CombatState(TRUE) @@ 2 :> CombatState(armed)),
                    damage  |-> <<>>,
                    set_velocity |-> <<>>,
                    sent    |-> [p \in CombatPlayers |-> None],
                    unread  |-> <<>>]
    /\ chat   = NoChat
    /\ stops  = NoStop
    /\ sched  = NoSystems
    /\ fall   = NoFall
    /\ hurt   = NoHurt
    /\ talk   = NoTalk
    /\ build  = NoBuilding
    /\ bvhs   = with_bvhs(PluginBvhs)
    /\ built  = [i \in 0 .. (PluginBvhs - 1) |-> NoBuild]
    /\ out    = NoQuery
    /\ swIn   = None
    /\ swOut  = None
    /\ ents   = <<>>
    /\ blocks = {}
    /\ order  = "physics_first"
    /\ pc     = "pre"
    /\ blockEvents  = <<>>
    /\ entityEvents = <<>>
    /\ passes = <<>>

(* Time passes. *)
ClockTick ==
    /\ combat.now < MaxTime
    /\ combat' = [combat EXCEPT !.now = @ + 1]

(* fall_damage_system sets or clears FallingState.falling. *)
SetFalling(p, falling) ==
    /\ combat.players[p].falling # falling
    /\ combat' = [combat EXCEPT !.players[p].falling = falling]

(* A run of combat_system; sent keeps, for every attacker, the times of    *)
(* the latest DamageEvent and of the one before it (history), unread the   *)
(* events the run did not get to.                                          *)
RunCombat(run) ==
    \E r \in { combat_system(combat.players, combat.now,
                               run.sprint, run.sneak, run.attacks) } :
       LET n(a) == Cardinality({ k \in DOMAIN r.damage : r.damage[k].attacker = Some(a) })
       IN  combat' = [combat EXCEPT
                     !.players = r.players,
                     !.damage  = r.damage,
                     !.set_velocity = r.set_velocity,
                     !.unread  = r.unread,
                     !.sent    = [p \in CombatPlayers |->
                                    CASE n(p) = 0 -> @[p]
                                      [] n(p) = 1 ->
                                           Some([at   |-> combat.now,
                                                 prev |-> IF @[p].some THEN Some(@[p].val.at)
                                                          ELSE None])
                                      [] OTHER ->
                                           Some([at |-> combat.now,
                                                 prev |-> Some(combat.now)])]]

CombatNext ==
    \/ ClockTick
       /\ UNCHANGED <<bvhVars, sweptVars, physVars, schedVars, stopVars, chatVars, buildVars, talkVars, hurtVars, fallVars>>
    \/ \E p \in CombatPlayers, falling \in BOOLEAN :
          SetFalling(p, falling)
          /\ UNCHANGED <<bvhVars, sweptVars, physVars, schedVars, stopVars, chatVars, buildVars, talkVars, hurtVars, fallVars>>
    \/ \E run \in CombatRuns :
          RunCombat(run)
          /\ UNCHANGED <<bvhVars, sweptVars, physVars, schedVars, stopVars, chatVars, buildVars, talkVars, hurtVars, fallVars>>

SpecCombat == CombatInit /\ [][CombatNext]_vars

(* The movement state the flags of a player stand for when in_air comes    *)
(* before sprinting, sprinting before sneaking, and sneaking before base.  *)
ByPriority(player) ==
    IF player.falling THEN "InAir"
    ELSE IF player.sprinting THEN "Sprinting"
    ELSE IF player.sneaking THEN "Sneaking"
    ELSE "None"

(* The run of combat_system that reads the events `run` registers exactly  *)
(* one attack, of attacker on victim.                                      *)
Registers(run, attacker, victim) ==
    /\ RunCombat(run)
    /\ Len(combat'.damage) = 1
    /\ combat'.damage[1] = DamageEvent(victim, Some(attacker), combat'.damage[1].damage)

(* C23: the knockback an attack gives is made of the attacker's knockback  *)
(* values and the victim's received multipliers for the movement states    *)
(* that the two players' flags stand for with the priority in_air >        *)
(* sprinting > sneaking > base.                                            *)
C23_ValueByPriority ==
    [][\A run \in CombatRuns, attacker \in CombatPlayers, victim \in CombatPlayers :
          (Registers(run, attacker, victim) /\ run.sprint = <<>> /\ run.sneak = <<>>) =>
             LET a  == combat.players[attacker]
                 v  == combat.players[victim]
                 ac == a.combat_config
                 vc == v.combat_config
             IN  combat'.set_velocity[1].velocity =
                    [xz |-> current(ac.horizontal_knockback, ByPriority(a)) * 20
                              * current(vc.horizontal_knockback_received_multiplier,
                                        ByPriority(v)),
                     y  |-> current(ac.vertical_knockback, ByPriority(a)) * 20
                              * current(vc.vertical_knockback_received_multiplier,
                                        ByPriority(v))]]_vars

(* C23 witness: an attack of a player who is falling and sprinting has     *)
(* been registered.                                                        *)
C23_Witness ==
    /\ Len(combat.damage) = 1
    /\ \E p \in CombatPlayers :
          /\ combat.damage[1].attacker = Some(p)
          /\ combat.players[p].falling
          /\ combat.players[p].sprinting
          /\ combat.players[p].last_hit = combat.now

(* The player's last registered hit is less than hit_cooldown old. *)
CoolingDown(p) ==
    combat.now - combat.players[p].last_hit < combat.players[p].combat_config.hit_cooldown

-----------------------------------------------------------------------------
(* Building: one player with a BuildState, an inventory of two hotbar      *)
(* slots and the first of them held; a chunk layer that is loaded for the  *)
(* column x = 0, z = 0 up to the build height; build_system runs on the    *)
(* interact events of a tick.                                              *)

BuildHeight  == 2
MaxStack     == 2
MaxBuildTime == 3

(* place_cooldown: Duration::ZERO by default, or a cooldown of two steps *)
PlaceCooldowns == {0, 2}

Builder  == 1
Stranger == 2

HeldSlot  == 36
OtherSlot == 37

LayerCells == { <<0, y, 0>> : y \in 0 .. (BuildHeight - 1) }

(* What the player may hold. *)
HeldStacks ==
    {ItemStack_EMPTY, ItemStack("Stick", 1), ItemStack("Torch", 1)}
        \cup { ItemStack("Stone", n) : n \in 1 .. MaxStack }

(* The entries of the entity-block index: nothing, an entity that stands   *)
(* in the cell above the floor, or one that rests on top of that cell and  *)
(* reaches less than the tolerance into it.                                *)
BlockIndexEntries ==
    { <<>>,
      <<EntityBvhEntry(7, Aabb(<<500, BlockSize, 500>>, <<2000, 7000, 2000>>))>>,
      <<EntityBvhEntry(7, Aabb(<<500, 2 * BlockSize - 10, 500>>,
                               <<2000, 2 * BlockSize + 4500, 2000>>))>> }

(* The builder's main-hand clicks on any face of any loaded cell. *)
BuilderClicks ==
    { InteractBlockEvent(Builder, p, f, "Main") : p \in LayerCells, f \in Directions }

BuildEvents ==
    BuilderClicks
        \cup { InteractBlockEvent(Builder, <<0, 0, 0>>, "Up", "Off"),
               InteractBlockEvent(Stranger, <<0, 0, 0>>, "Up", "Main") }

(* The events of one tick: one event, or the same click twice. *)
BuildBatches ==
    { <<e>> : e \in BuildEvents } \cup { <<e, e>> : e \in BuilderClicks }

BuildInit ==
    /\ \E held \in HeldStacks, cd \in PlaceCooldowns :
          build = [now     |-> 0,
                   clients |-> (Builder :>
                                 [build_state |-> BuildState(0, PlayerBuildConfig(cd)),
                                  inventory   |-> (HeldSlot :> held)
                                                  @@ (OtherSlot :> ItemStack("Stone", 1)),
                                  held_item   |-> HeldSlot]),
                   layer   |-> [c \in LayerCells |-> IF c[2] = 0 THEN "Stone" ELSE "Air"],
                   log     |-> <<>>]
    /\ \E es \in BlockIndexEntries :
          bvhs = [with_bvhs(PluginBvhs) EXCEPT ![ENTITY_BLOCK_BVH_IDX] = BvhBuild(es)]
    /\ built  = [i \in 0 .. (PluginBvhs - 1) |-> NoBuild]
    /\ out    = NoQuery
    /\ swIn   = None
    /\ swOut  = None
    /\ ents   = <<>>
    /\ blocks = {}
    /\ order  = "physics_first"
    /\ pc     = "pre"
    /\ blockEvents  = <<>>
    /\ entityEvents = <<>>
    /\ passes = <<>>
    /\ sched  = NoSystems
    /\ fall   = NoFall
    /\ hurt   = NoHurt
    /\ talk   = NoTalk
    /\ stops  = NoStop
    /\ chat   = NoChat
    /\ combat = NoCombat

(* Time passes between two runs; the events of the tick are gone. *)
BuildClockTick ==
    /\ build.now < MaxBuildTime
    /\ build' = [build EXCEPT !.now = @ + 1, !.log = <<>>]

(* One run of build_system. *)
BuildSystem(events) ==
    \E r \in { build_system(build.clients, build.layer, bvhs, build.now, events) } :
        build' = [build EXCEPT !.clients = r.clients, !.layer = r.layer, !.log = r.log]

BuildNext ==
    \/ BuildClockTick
       /\ UNCHANGED <<bvhVars, sweptVars, physVars, schedVars, stopVars, chatVars, combatVars, talkVars, hurtVars, fallVars>>
    \/ \E events \in BuildBatches :
          BuildSystem(events)
          /\ UNCHANGED <<bvhVars, sweptVars, physVars, schedVars, stopVars, chatVars, combatVars, talkVars, hurtVars, fallVars>>

SpecBuild == BuildInit /\ [][BuildNext]_vars

(* The position a logged click asks to build at. *)
RealPos(rec) == get_in_direction(rec.event.position, rec.event.face)

(* The calls of on_try_place in the log of the latest run. *)
PlaceCalls == { k \in DOMAIN build.log : build.log[k].called }

(* The held stack is empty or no block, or a collision shape of its block  *)
(* at the position to build at meets an entry of the entity-block index.   *)
NothingToPlaceOrInTheWay(rec) ==
    LET stack == rec.before.player_inventory[HeldSlot]
        kind  == from_item_kind(stack.item)
    IN  \/ stack.count = 0
        \/ ~kind.some
        \/ \E k \in DOMAIN collision_shapes(kind.val) :
              get_in_range(bvhs[ENTITY_BLOCK_BVH_IDX],
                           translate(collision_shapes(kind.val)[k],
                                     [i \in Axes |-> RealPos(rec)[i] * BlockSize])) # <<>>

(* A refused placement leaves the inventory and the layer alone. *)
RefusalChangesNothing ==
    \A k \in PlaceCalls :
        LET rec == build.log[k]
        IN  ~rec.ret => /\ rec.after = rec.before
                        /\ NothingToPlaceOrInTheWay(rec)

(* An accepted placement takes one item of the held slot, nothing else. *)
AcceptanceTakesOneItem ==
    \A k \in PlaceCalls :
        LET rec == build.log[k]
            inv0 == rec.before.player_inventory
            inv1 == rec.after.player_inventory
        IN  rec.ret => /\ DOMAIN inv1 = DOMAIN inv0
                       /\ inv1[HeldSlot].count = inv0[HeldSlot].count - 1
                       /\ inv1[OtherSlot] = inv0[OtherSlot]

(* An accepted placement sets the block of the held item at the            *)
(* neighbouring position and no other cell.                                *)
AcceptanceSetsOneBlock ==
    \A k \in PlaceCalls :
        LET rec == build.log[k]
            l0  == rec.before.chunk_layer
            l1  == rec.after.chunk_layer
        IN  rec.ret => /\ RealPos(rec) \in DOMAIN l1
                       /\ l1[RealPos(rec)] = rec.before.player_inventory[HeldSlot].item
                       /\ \A c \in DOMAIN l0 \ {RealPos(rec)} : l1[c] = l0[c]

(* last_place as the event after log[k] finds it, or as the run left it. *)
LastPlaceAfter(k) ==
    IF k < Len(build.log) THEN build.log[k + 1].state.val.last_place
    ELSE build.clients[Builder].build_state.last_place

(* build_system passes over off-hand events and events inside the          *)
(* cooldown, and moves last_place only for an accepted placement.          *)
SystemGatesAndStamps ==
    \A k \in DOMAIN build.log :
        LET rec == build.log[k]
        IN  /\ rec.event.hand # "Main" => ~rec.called
            /\ rec.state.some =>
                  LET bs == rec.state.val
                  IN  /\ rec.now - bs.last_place < bs.build_config.place_cooldown
                            => ~rec.called
                      /\ LastPlaceAfter(k) # bs.last_place => rec.called /\ rec.ret
                      /\ rec.called /\ rec.ret => LastPlaceAfter(k) = rec.now

(* C24: on_try_place_default returns true iff the block was placed: a      *)
(* false return (empty hand, no block item, or an entity in the way)       *)
(* leaves inventory and chunk layer unchanged, a true return has taken     *)
(* exactly one item from the held slot and set exactly one block, at the   *)
(* neighbour of the clicked position in the clicked direction; and         *)
(* build_system moves last_place only after a true return and passes over  *)
(* events inside place_cooldown or from the off hand.                      *)
C24_PlacedIffTrue ==
    /\ RefusalChangesNothing
    /\ AcceptanceTakesOneItem
    /\ AcceptanceSetsOneBlock
    /\ SystemGatesAndStamps

(* The handler took an item and returned true for a position outside the   *)
(* loaded layer, where set_block sets nothing.                             *)
C24_Witness ==
    \E k \in PlaceCalls :
        LET rec == build.log[k]
        IN  /\ rec.ret
            /\ RealPos(rec) \notin DOMAIN rec.before.chunk_layer
            /\ rec.after.chunk_layer = rec.before.chunk_layer
            /\ rec.after.player_inventory[HeldSlot].count
                   = rec.before.player_inventory[HeldSlot].count - 1

-----------------------------------------------------------------------------------------------------------------------------------------------------
(* One resolution pass, axis by axis *)

(* The state the loop of a run starts in. *)
LoopStart(e) ==
    [position |-> ents[e].position, velocity |-> integrate(ents[e]),
     events |-> <<>>, passes |-> 0]

(* The passes of e's run that met a block, at most n of them from state    *)
(* st on: the state a pass began in, its potential collisions, and the     *)
(* state it left.                                                          *)
RECURSIVE PassTrace(_, _, _)
PassTrace(e, st, n) ==
    IF n = 0 THEN <<>>
    ELSE LET vdelta == velocity_delta(st.velocity)
             pcs    == potential_collisions(st.position, vdelta, ColliderOf(ents[e]))
         IN  IF pcs = {} THEN <<>>
             ELSE LET after == resolve(st, e, ents[e].stop_on_block_collision, vdelta,
                                       min_by_entry_time(pcs))
                  IN  <<[before |-> st, pcs |-> pcs, after |-> after]>>
                         \o PassTrace(e, after, n - 1)

(* The state the loop ends in. *)
LoopEnd(e, trace) == IF trace = <<>> THEN LoopStart(e) ELSE trace[Len(trace)].after

(* The trace is the one of the run being taken: the run sends the events   *)
(* of the trace, stores the velocity the trace ends with, and advances     *)
(* the position the trace ends at by that velocity.                        *)
TraceOfRun(e, trace) ==
    /\ BlockEventsOf(blockEvents', e) = LoopEnd(e, trace).events
    /\ ents'[e].velocity = LoopEnd(e, trace).velocity
    /\ ents'[e].position =
          VAdd(LoopEnd(e, trace).position, velocity_delta(LoopEnd(e, trace).velocity))

(* The event a pass of the trace sent. *)
EventOf(pass) == pass.after.events[Len(pass.after.events)]

(* The collision a pass resolved: the candidate at its event's block. *)
HitOf(pass) == CHOOSE p \in pass.pcs : p.block_pos = EventOf(pass).block_pos

(* The stop configuration of e names a face of the pass's event. *)
StopApplies(e, pass) ==
    /\ ents[e].stop_on_block_collision.some
    /\ \E f \in FacesOf(EventOf(pass).block_face_bitmap) :
          should_stop(ents[e].stop_on_block_collision.val, f)

(* C26: in a pass that resolves a collision of entry time t, on every axis *)
(* the collision has a face on the velocity becomes 0, the position        *)
(* advances by velocity * dt * (t - 0.01) and the bit of the face is set   *)
(* in the event's bitmap; on every other axis the position stays, the      *)
(* velocity stays unless the stop configuration applies, and no bit is     *)
(* set; the last advance adds velocity * dt on every axis, which for an    *)
(* axis no pass touched is its whole displacement of the tick.             *)
C26_PassActsOnControllingAxes ==
    [][PhysicsRuns =>
          \A e \in DOMAIN ents :
             ents[e].block_collision_config.some =>
                \E trace \in { PassTrace(e, LoopStart(e), MaxPasses) } :
                   /\ TraceOfRun(e, trace)
                   /\ \A k \in DOMAIN trace :
                         LET before == trace[k].before
                             after  == trace[k].after
                             vdelta == velocity_delta(before.velocity)
                             hit    == HitOf(trace[k]).collision
                             t      == hit.entry_time
                             faces  == FacesOf(EventOf(trace[k]).block_face_bitmap)
                         IN  \A i \in Axes :
                                IF hit.face_direction[i].some
                                THEN /\ after.velocity[i] = 0
                                     /\ after.position[i] =
                                           before.position[i]
                                             + (vdelta[i] * t.n) \div t.d - before.velocity[i]
                                     /\ FaceOf(i, hit.face_direction[i].val) \in faces
                                ELSE /\ after.position[i] = before.position[i]
                                     /\ \/ after.velocity[i] = before.velocity[i]
                                        \/ StopApplies(e, trace[k]) /\ after.velocity[i] = 0
                                     /\ \A f \in faces : AxisOfFace(f) # i
                   /\ \A i \in Axes :
                         (\A k \in DOMAIN trace :
                             /\ ~HitOf(trace[k]).collision.face_direction[i].some
                             /\ ~StopApplies(e, trace[k]))
                         => ents'[e].position[i] =
                               ents[e].position[i] + velocity_delta(integrate(ents[e]))[i]]_vars

(* C26 witness: an entity without a stop configuration has met the floor   *)
(* alone in a run; it has no vertical velocity left, keeps its velocity    *)
(* along x and z, and has moved along both.                                *)
C26_Witness ==
    /\ PhysicsDone
    /\ blocks = RoomWorld
    /\ \E e \in DOMAIN ents :
          /\ ~ents[e].stop_on_block_collision.some
          /\ Len(BlockEventsOf(blockEvents, e)) = 1
          /\ BlockEventsOf(blockEvents, e)[1].block_face_bitmap = FaceBit("Up")
          /\ ents[e].velocity[2] = 0
          /\ ents[e].velocity[1] # 0
          /\ ents[e].velocity[3] # 0

-----------------------------------------------------------------------------
(* The collision a pass resolves *)

(* p comes before q in the choice of a pass: it is met earlier, or at the  *)
(* same time and its cell is enumerated earlier.                           *)
ChosenBefore(p, q) ==
    \/ TLt(p.collision.entry_time, q.collision.entry_time)
    \/ /\ TEq(p.collision.entry_time, q.collision.entry_time)
       /\ LexLess(p.block_pos, q.block_pos)

(* Several potential collisions of a pass share the least entry time. *)
TiedPass(pass) ==
    \E q \in pass.pcs :
        /\ q # HitOf(pass)
        /\ TEq(q.collision.entry_time, HitOf(pass).collision.entry_time)

(* C27: the collision a pass resolves has the least entry_time of the      *)
(* potential collisions (those with a contact face) of the pass, and of    *)
(* those with the least entry_time it is the first in the order of the     *)
(* enumeration, x before y before z ascending; there is exactly one such   *)
(* candidate, so the block of the event and the state the pass leaves are  *)
(* fixed by the state the pass began in and the terrain.                   *)
C27_ResolvesFirstOfLeastEntryTime ==
    [][PhysicsRuns =>
          \A e \in DOMAIN ents :
             ents[e].block_collision_config.some =>
                \E trace \in { PassTrace(e, LoopStart(e), MaxPasses) } :
                   /\ TraceOfRun(e, trace)
                   /\ \A k \in DOMAIN trace :
                         LET hit == HitOf(trace[k])
                         IN  /\ HasFace(hit.collision)
                             /\ \A q \in trace[k].pcs :
                                   /\ HasFace(q.collision)
                                   /\ q = hit \/ ChosenBefore(hit, q)
                             /\ trace[k].after =
                                   resolve(trace[k].before, e,
                                           ents[e].stop_on_block_collision,
                                           velocity_delta(trace[k].before.velocity), hit)]_vars

(* C27 witness: an entity whose box stands exactly over the cell column    *)
(* (0, 0) has fallen straight onto the floor; it touched the floor blocks  *)
(* around that column at the same time, and the event names the first of   *)
(* them in the order of the enumeration.                                   *)
C27_Witness ==
    /\ PhysicsDone
    /\ blocks = FloorWorld
    /\ \E e \in DOMAIN ents :
          /\ \A i \in {1, 3} : ents[e].hitbox.min[i] = 0 /\ ents[e].hitbox.max[i] = BlockSize
          /\ ents[e].position[1] = Half /\ ents[e].position[3] = Half
          /\ ents[e].velocity = ZERO
          /\ Len(BlockEventsOf(blockEvents, e)) = 1
          /\ BlockEventsOf(blockEvents, e)[1] =
                EntityBlockCollisionEvent(e, <<-1, FloorTop - 1, -1>>, FaceBit("Up"))

-----------------------------------------------------------------------------
(* The events of the passes *)

(* The face of a block that an entity moving with v along axis i runs      *)
(* into.                                                                   *)
FaceAgainst(i, v) ==
    CASE i = 1 -> IF v < 0 THEN "East"  ELSE "West"
      [] i = 2 -> IF v < 0 THEN "Up"    ELSE "Down"
      [] i = 3 -> IF v < 0 THEN "South" ELSE "North"

(* C28: every EntityBlockCollisionEvent of a run has a bitmap that is not  *)
(* zero and holds at most one face of each axis; its faces are, for the    *)
(* axes the resolved collision has a face on, the faces the entity moved   *)
(* against (Up for an entity moving down), and the entity did move along   *)
(* those axes; its block_pos is a cell of the layer that holds a block and *)
(* lies in the candidate ranges of the pass on all three axes.  The run    *)
(* writes no other event.                                                  *)
C28_EventFacesAndBlock ==
    [][PhysicsRuns =>
          /\ \A n \in DOMAIN blockEvents' :
                /\ blockEvents'[n].entity \in DOMAIN ents
                /\ ents[blockEvents'[n].entity].block_collision_config.some
          /\ \A e \in DOMAIN ents :
                ents[e].block_collision_config.some =>
                   \E trace \in { PassTrace(e, LoopStart(e), MaxPasses) } :
                      /\ TraceOfRun(e, trace)
                      /\ \A k \in DOMAIN trace :
                            LET before == trace[k].before
                                vdelta == velocity_delta(before.velocity)
                                event  == EventOf(trace[k])
                                faces  == FacesOf(event.block_face_bitmap)
                                fd     == HitOf(trace[k]).collision.face_direction
                            IN  /\ event.block_face_bitmap # 0
                                /\ event.block_face_bitmap < 64
                                /\ \A f, g \in faces : AxisOfFace(f) = AxisOfFace(g) => f = g
                                /\ \A i \in Axes : fd[i].some => before.velocity[i] # 0
                                /\ faces = { FaceAgainst(i, before.velocity[i]) :
                                               i \in { j \in Axes : fd[j].some } }
                                /\ event.block_pos \in blocks
                                /\ \A i \in Axes :
                                      event.block_pos[i] \in
                                         AxisRange(before.position, vdelta,
                                                   ColliderOf(ents[e]), i)]_vars

(* C28 witness: an entity that moved into the corner of the room has sent  *)
(* three events in one run, for the top face of a floor block and for the  *)
(* east and the south face of wall blocks.                                 *)
C28_Witness ==
    /\ PhysicsDone
    /\ blocks = RoomWorld
    /\ \E e \in DOMAIN ents :
          /\ Len(BlockEventsOf(blockEvents, e)) = 3
          /\ { BlockEventsOf(blockEvents, e)[k].block_face_bitmap : k \in 1 .. 3 }
                = {FaceBit("Up"), FaceBit("East"), FaceBit("South")}
          /\ \A k \in 1 .. 3 : BlockEventsOf(blockEvents, e)[k].block_pos \in blocks

-----------------------------------------------------------------------------
(* The steps of a run, entity by entity *)

(* The orders a query may iterate the entities of S in. *)
Orderings(S) ==
    { ids \in [1 .. Cardinality(S) -> S] : \A a, b \in DOMAIN ids : ids[a] = ids[b] => a = b }

(* The world after the closure has run for one entity: its step, taken     *)
(* from the world as it is, writes the entity's position and velocity.     *)
AfterStepOf(e, world) ==
    \* step reads the entity's own components, the layer and the indices
    LET r == step(e, world[e])
    IN  [world EXCEPT ![e].position = r.position, ![e].velocity = r.velocity]

(* The world after the closure has run for the entities in order ids. *)
RECURSIVE StepsInOrder(_, _)
StepsInOrder(ids, world) ==
    IF ids = <<>> THEN world
    ELSE StepsInOrder(Tail(ids), AfterStepOf(Head(ids), world))

(* C29: the step of an entity writes that entity's position and velocity   *)
(* and nothing else: every other component of every entity, the blocks of  *)
(* the layer and both indices are after a run of physics_system as they    *)
(* were before it, each entity's new position and velocity are those of    *)
(* its own step from its own state, and the entities end the run in the    *)
(* same state whatever the order the query iterates them in.               *)
C29_StepChangesOwnBodyOnly ==
    [][PhysicsRuns =>
          /\ blocks' = blocks
          /\ bvhs' = bvhs
          /\ DOMAIN ents' = DOMAIN ents
          /\ \A e \in DOMAIN ents :
                \E r \in { AfterStepOf(e, ents) } :
                   /\ \A o \in DOMAIN ents \ {e} : r[o] = ents[o]
                   /\ r[e] = [ents[e] EXCEPT !.position = r[e].position,
                                             !.velocity = r[e].velocity]
                   /\ ents'[e] = r[e]
          /\ Cardinality(DOMAIN ents) > 1 =>
                \A ids \in Orderings(DOMAIN ents) : StepsInOrder(ids, ents) = ents']_vars

(* C29 witness: of two overlapping entities that report each other, the    *)
(* first has moved on with its velocity and the second is where it was, at *)
(* rest, with both indices holding what rebuild_bvh stored.                *)
C29_Witness ==
    /\ PhysicsDone
    /\ DOMAIN ents = {1, 2}
    /\ Len(EntityEventsOf(entityEvents, 1, 2)) = 1
    /\ Len(EntityEventsOf(entityEvents, 2, 1)) = 1
    /\ ents[1].velocity = <<8, 0, 0>>
    /\ ents[1].position # [i \in Axes |-> ents[1].hitbox.min[i] + Half]
    /\ ents[2].velocity = ZERO
    /\ ents[2].position = [i \in Axes |-> ents[2].hitbox.min[i] + Half]
    /\ Indexed(ENTITY_ENTITY_BVH_IDX) # <<>>

-----------------------------------------------------------------------------
(* The box of the query and the box of the entry *)

(* entity_collision_config.entity_collider_hitbox                          *)
(*     .unwrap_or(entity.hitbox.get()): the box physics_system queries     *)
(* index 0 with.                                                           *)
QueryBox(b) ==
    IF b.entity_collision_config.val.entity_collider_hitbox.some
    THEN b.entity_collision_config.val.entity_collider_hitbox.val
    ELSE b.hitbox

(* The box rebuild_bvh stores in index 0 for the entity as it is. *)
StoredBox(b) == EntryBox(b, b.entity_collision_config.val.entity_collider_hitbox)

(* The entities with an EntityCollisionConfig. *)
OptedIn == { e \in DOMAIN ents : ents[e].entity_collision_config.some }

(* Index 0 holds every opted-in entity under the box of its present        *)
(* position, and nothing else.                                             *)
IndexIsCurrent ==
    LET held == Indexed(ENTITY_ENTITY_BVH_IDX)
    IN  /\ Len(held) = Cardinality(OptedIn)
        /\ { held[k] : k \in DOMAIN held }
              = { EntityBvhEntry(e, StoredBox(ents[e])) : e \in OptedIn }

(* C30: the box an entity queries index 0 with in physics_system is the    *)
(* box rebuild_bvh stores for it at the same position, with an override    *)
(* entity_collider_hitbox and without; and with the index built from the   *)
(* present positions, a run reports entity o to entity e iff the two       *)
(* boxes, each placed at its entity's position, overlap.                   *)
C30_QueryBoxIsStoredBox ==
    [][PhysicsRuns =>
          /\ \A e \in OptedIn : QueryBox(ents[e]) = StoredBox(ents[e])
          /\ IndexIsCurrent =>
                \A e, o \in OptedIn :
                   e # o =>
                      (EntityEventsOf(entityEvents', e, o) # <<>>
                          <=> Overlaps(StoredBox(ents[e]), StoredBox(ents[o])))]_vars

(* C30 witness: two entities with an override box stand so that the boxes  *)
(* at their positions overlap, index 0 holds both under these boxes, and   *)
(* the run of physics_system that queried it has reported neither.         *)
C30_Witness ==
    /\ PhysicsDone
    /\ order = "rebuild_first"
    /\ OptedIn = {1, 2}
    /\ \A e \in OptedIn : ents[e].entity_collision_config.val.entity_collider_hitbox.some
    /\ ents[1].velocity = ZERO
    /\ IndexIsCurrent
    /\ Overlaps(StoredBox(ents[1]), StoredBox(ents[2]))
    /\ entityEvents = <<>>

-----------------------------------------------------------------------------
(* The two maps of the registry *)

(* The channels players_to_channels lists for a player. *)
ListedFor(self, p) ==
    IF p \in DOMAIN self.players_to_channels
    THEN self.players_to_channels[p].with_prefix
            \cup self.players_to_channels[p].without_prefix
    ELSE {}

(* The player is in the member map of the channel. *)
IsMember(self, p, id) ==
    id \in DOMAIN self.channels /\ p \in DOMAIN self.channels[id].members

(* C37: after any sequence of calls the two maps of ChatChannels agree: a  *)
(* channel is listed for a player in players_to_channels exactly if the    *)
(* channel exists and the player is in its member map, and a listed        *)
(* channel is in the prefixed set exactly if it has a required prefix (in  *)
(* the unprefixed set exactly if it has none); so the lookups that         *)
(* chat_system unwraps for a listed channel find the channel and the       *)
(* member.                                                                 *)
C37_MapsAgree ==
    \A p \in ChatPlayers :
        \A id \in 1 .. (MaxChannelId + 1) :
            /\ id \in ListedFor(chat.self, p) <=> IsMember(chat.self, p, id)
            /\ id \in ListedFor(chat.self, p) =>
                  /\ id \in chat.self.players_to_channels[p].with_prefix
                        <=> chat.self.channels[id].config.required_prefix.some
                  /\ id \in chat.self.players_to_channels[p].without_prefix
                        <=> ~chat.self.channels[id].config.required_prefix.some

(* C37 witness: add_channel has been called for the id of a channel that   *)
(* had a member; the channel is still listed for the player and its member *)
(* map is empty.                                                           *)
C37_Witness ==
    /\ chat.call.some
    /\ chat.call.val.fn = "add_channel"
    /\ \E p \in ChatPlayers :
          LET id == chat.call.val.channel_id
          IN  /\ id \in ListedFor(chat.self, p)
              /\ chat.self.channels[id].members = <<>>


(***************************************************************************)
(* SpecTalk: chat_system run on the message events of a tick, for clients  *)
(* in channels set up through add_channel and add_player_to_channel.       *)
(***************************************************************************)
MaxTalkTime == 3

Senders == {"p1", "p2", "npc", "p3"}

Messages == {<<"h">>, <<"!", "h">>, <<"!", " ", "h">>}

(* Joins, in order, applied to a registry. *)
RECURSIVE Joined(_, _)
Joined(self, joins) ==
    IF joins = <<>> THEN self
    ELSE Joined(add_player_to_channel(self, joins[1][1], joins[1][2], joins[1][3]).self,
                Tail(joins))

(* Two channels without prefix, each with a cooldown. *)
TwoRooms ==
    Joined(add_channel(add_channel(ChatChannels_new,
                1, ChatChannelConfigOf(FALSE, None, Some(2), None)),
                2, ChatChannelConfigOf(FALSE, None, Some(2), Some(<<"G">>))),
           << <<1, "p1", PlayerChatChannelConfigOf("ReadWrite", None)>>,
              <<2, "p1", PlayerChatChannelConfigOf("ReadWrite", None)>>,
              <<1, "p2", PlayerChatChannelConfigOf("Read", None)>>,
              <<2, "p2", PlayerChatChannelConfigOf("ReadWrite", None)>> >>)

(* A channel behind "!" that hides the message from its sender, and a     *)
(* channel without prefix.                                                 *)
ShoutAndRoom ==
    Joined(add_channel(add_channel(ChatChannels_new,
                1, ChatChannelConfigOf(TRUE, Some(<<"!">>), None, Some(<<"G">>))),
                2, ChatChannelConfigOf(FALSE, None, Some(2), None)),
           << <<1, "p1", PlayerChatChannelConfigOf("ReadWrite", Some(<<"P">>))>>,
              <<2, "p1", PlayerChatChannelConfigOf("ReadWrite", None)>>,
              <<1, "p2", PlayerChatChannelConfigOf("ReadWrite", None)>>,
              <<2, "p2", PlayerChatChannelConfigOf("Write", None)>>,
              <<2, "npc", PlayerChatChannelConfigOf("ReadWrite", None)>> >>)

(* Two channels behind "!", one with a cooldown, one a player may only     *)
(* read.                                                                   *)
TwoShouts ==
    Joined(add_channel(add_channel(ChatChannels_new,
                1, ChatChannelConfigOf(FALSE, Some(<<"!">>), Some(2), None)),
                2, ChatChannelConfigOf(FALSE, Some(<<"!">>), None, None)),
           << <<1, "p1", PlayerChatChannelConfigOf("Write", None)>>,
              <<2, "p1", PlayerChatChannelConfigOf("Read", None)>>,
              <<1, "p2", PlayerChatChannelConfigOf("ReadWrite", None)>>,
              <<2, "p2", PlayerChatChannelConfigOf("ReadWrite", None)>> >>)

(* A channel added again after a player joined it. *)
AddedAgain ==
    add_channel(Joined(add_channel(ChatChannels_new,
                1, ChatChannelConfigOf(FALSE, None, None, None)),
           << <<1, "p1", PlayerChatChannelConfigOf("ReadWrite", None)>>,
              <<1, "p2", PlayerChatChannelConfigOf("ReadWrite", None)>> >>),
                1, ChatChannelConfigOf(FALSE, None, None, None))

Setups == {TwoRooms, ShoutAndRoom, TwoShouts, AddedAgain}

HashOrders == {<<1, 2>>, <<2, 1>>}

TalkEvents == { ChatMessageEvent(c, m) : c \in Senders, m \in Messages }

TalkBatches ==
    { <<e>> : e \in TalkEvents }
        \cup { <<e, e>> : e \in TalkEvents }
        \cup { <<ChatMessageEvent("p1", <<"h">>), ChatMessageEvent("p2", m)>> : m \in Messages }

TalkInit ==
    /\ \E setup \in Setups, muted \in {{}, {"a"}} :
          talk = [now      |-> 0,
                  channels |-> setup,
                  clients  |-> ("p1" :> [name |-> "a", chat_ability |-> ChatAbility({}, None)])
                               @@ ("p2" :> [name |-> "b",
                                            chat_ability |-> ChatAbility(muted, None)])
                               @@ ("p3" :> [name |-> "c", chat_ability |-> ChatAbility({}, None)]),
                  log      |-> <<>>,
                  panic    |-> FALSE]
    /\ bvhs   = with_bvhs(PluginBvhs)
    /\ built  = [i \in 0 .. (PluginBvhs - 1) |-> NoBuild]
    /\ out    = NoQuery
    /\ swIn   = None
    /\ swOut  = None
    /\ ents   = <<>>
    /\ blocks = {}
    /\ order  = "physics_first"
    /\ pc     = "pre"
    /\ blockEvents  = <<>>
    /\ entityEvents = <<>>
    /\ passes = <<>>
    /\ sched  = NoSystems
    /\ fall   = NoFall
    /\ hurt   = NoHurt
    /\ stops  = NoStop
    /\ chat   = NoChat
    /\ combat = NoCombat
    /\ build  = NoBuilding

(* Time passes between two ticks. *)
TalkClockTick ==
    /\ ~talk.panic
    /\ talk.now < MaxTalkTime
    /\ talk' = [talk EXCEPT !.now = @ + 1, !.log = <<>>]

(* chat_system on the message events of the tick. *)
ChatSystem(events, hash_order) ==
    /\ ~talk.panic
    /\ \E r \in { chat_system(talk.channels, talk.clients, talk.now, events, hash_order) } :
          talk' = [talk EXCEPT !.clients = r.clients, !.log = r.log, !.panic = r.panic]

TalkNext ==
    \/ TalkClockTick /\ UNCHANGED <<bvhVars, sweptVars, physVars, schedVars, stopVars, chatVars, combatVars, buildVars, hurtVars, fallVars>>
    \/ \E events \in TalkBatches, hash_order \in HashOrders :
          ChatSystem(events, hash_order) /\ UNCHANGED <<bvhVars, sweptVars, physVars, schedVars, stopVars, chatVars, combatVars, buildVars, hurtVars, fallVars>>

SpecTalk == TalkInit /\ [][TalkNext]_vars


(***************************************************************************)
(* C31, C32: what chat_system delivers, and when the cooldown drops it.    *)
(***************************************************************************)
RoomOf(r) == talk.channels.channels[r.channel_id]

(* The event matched a channel with a prefix: one the sender may write to  *)
(* and whose prefix the message starts with.                               *)
MatchedPrefixed(event) ==
    \E id \in DOMAIN talk.channels.channels :
        LET room == talk.channels.channels[id]
        IN  /\ room.config.required_prefix.some
            /\ event.client \in DOMAIN room.members
            /\ room.members[event.client].permission \in {"ReadWrite", "Write"}
            /\ starts_with(event.message, room.config.required_prefix.val)

(* The text without the channel's prefix and the spaces after it. *)
RECURSIVE Unspaced(_)
Unspaced(s) == IF s = <<>> \/ Head(s) # " " THEN s ELSE Unspaced(Tail(s))

Said(r) ==
    LET p == RoomOf(r).config.required_prefix
    IN  IF p.some THEN Unspaced(SubSeq(r.event.message, Len(p.val) + 1, Len(r.event.message)))
        ELSE r.event.message

Decorated(r) ==
    LET g  == RoomOf(r).config.global_prefix
        pp == RoomOf(r).members[r.event.client].prefix
    IN  (IF g.some THEN g.val ELSE <<>>) \o (IF pp.some THEN pp.val ELSE <<>>) \o Said(r)

(* C31: a message is delivered through a channel only if its sender is a   *)
(* member that may write, the receiver is a member that may read and has   *)
(* not muted the sender's name, the receiver is not the sender when the    *)
(* channel hides the message from its sender, and, for a channel with a    *)
(* prefix, the message starts with the prefix, which the delivered text    *)
(* lacks; a message that matched a channel with a prefix is delivered      *)
(* through no channel without one.                                         *)
C31_DeliveredOnlyWhenAllowed ==
    \A i \in DOMAIN talk.log :
        LET r == talk.log[i]
        IN  r.outcome = "sent" =>
              /\ r.channel_id \in DOMAIN talk.channels.channels
              /\ r.event.client \in DOMAIN RoomOf(r).members
              /\ RoomOf(r).members[r.event.client].permission \in {"ReadWrite", "Write"}
              /\ RoomOf(r).config.required_prefix.some =>
                    starts_with(r.event.message, RoomOf(r).config.required_prefix.val)
              /\ r.message = Decorated(r)
              /\ ~RoomOf(r).config.required_prefix.some => ~MatchedPrefixed(r.event)
              /\ \A p \in r.receivers :
                    /\ p \in DOMAIN RoomOf(r).members
                    /\ RoomOf(r).members[p].permission \in {"ReadWrite", "Read"}
                    /\ talk.clients[r.event.client].name
                          \notin talk.clients[p].chat_ability.muted_players
                    /\ ~(RoomOf(r).config.hide_msg_for_sender /\ p = r.event.client)

(* A message behind "!" went through the hiding channel to the other       *)
(* member only, without its prefix, and through no channel without prefix, *)
(* and a message without prefix reached a channel only one member reads.   *)
C31_Witness ==
    \E i \in DOMAIN talk.log :
          LET r == talk.log[i]
          IN  /\ r.outcome = "sent"
              /\ RoomOf(r).config.required_prefix.some
              /\ RoomOf(r).config.hide_msg_for_sender
              /\ r.receivers = {"p2"}
              /\ r.event.client = "p1"
              /\ r.message = <<"G", "P", "h">>
              /\ Len(talk.log) = 1
              /\ 2 \in talk.channels.players_to_channels["p1"].without_prefix

(* The records of the event a record belongs to. *)
RecordsOf(n) == { j \in DOMAIN talk.log : talk.log[j].n = n }

(* The sender's last_message_time when the event's first channel was       *)
(* looked at, and the one after record i.                                  *)
LastBeforeEvent(n) ==
    talk.log[CHOOSE j \in RecordsOf(n) : \A k \in RecordsOf(n) : j <= k].last_before

LastAfter(i) ==
    LET later == { j \in DOMAIN talk.log :
                      j > i /\ talk.log[j].event.client = talk.log[i].event.client }
    IN  IF later = {}
        THEN talk.clients[talk.log[i].event.client].chat_ability.last_message_time
        ELSE talk.log[CHOOSE j \in later : \A k \in later : j <= k].last_before

(* C32: the cooldown is between message events: a message goes through     *)
(* every channel its sender may write to (and whose prefix it has) when    *)
(* the sender's previous message event is at least that channel's cooldown *)
(* ago, is dropped for a channel only when that event is more recent, and  *)
(* a dropped message does not reset last_message_time.                     *)
C32_CooldownBetweenEvents ==
    \A i \in DOMAIN talk.log :
        LET r        == talk.log[i]
            cooldown == RoomOf(r).config.chat_cooldown
            previous == LastBeforeEvent(r.n)
            ready    == \/ ~cooldown.some
                        \/ ~previous.some
                        \/ talk.now - previous.val >= cooldown.val
        IN  r.outcome \in {"sent", "cooldown"} =>
              /\ r.outcome = "sent" <=> ready
              /\ r.outcome = "cooldown" => LastAfter(i) = r.last_before

(* The first message a sender ever wrote went through one of its two       *)
(* channels and was dropped, for the cooldown, in the other.               *)
C32_Witness ==
    \E i, j \in DOMAIN talk.log :
        /\ i < j
        /\ talk.log[i].n = talk.log[j].n
        /\ talk.log[i].outcome = "sent"
        /\ talk.log[j].outcome = "cooldown"
        /\ ~LastBeforeEvent(talk.log[i].n).some
        /\ talk.log[j].last_before = Some(talk.now)


(***************************************************************************)
(* SpecHurt: damage_system on the DamageEvents of a tick.  Health and      *)
(* damage are whole numbers of half hearts.                                *)
(***************************************************************************)
MaxHealth == 3

MaxDamage == 2

(* TakesDamage, the fields damage_system computes with *)
TakesDamage(damage_multiplier, set_hp_after_death, suppress_death_event) ==
    [damage_multiplier    |-> damage_multiplier,
     set_hp_after_death   |-> set_hp_after_death,
     suppress_death_event |-> suppress_death_event]

DeathEvent(victim, attacker) == [victim |-> victim, attacker |-> attacker]

(* The body of the query loop of damage_system for one query item. *)
damage_item(s, events, entity) ==
    LET health       == s.bodies[entity].health
        takes_damage == s.bodies[entity].takes_damage
        damage       == events.damage * takes_damage.damage_multiplier
    IN  IF health <= 0 THEN s
        ELSE IF health - damage <= 0
        THEN [bodies |-> [s.bodies EXCEPT ![entity].health = takes_damage.set_hp_after_death],
              deaths |-> IF ~takes_damage.suppress_death_event
                         THEN Append(s.deaths, DeathEvent(events.victim, events.attacker))
                         ELSE s.deaths]
        ELSE [s EXCEPT !.bodies[entity].health = health - damage]

(* fn damage_system: for every event every item of the query, the items    *)
(* in the order query_order.                                               *)
damage_system(events, bodies, query_order) ==
    LET items == Len(query_order)
        run[k \in 0 .. (Len(events) * items)] ==
            IF k = 0 THEN [bodies |-> bodies, deaths |-> <<>>]
            ELSE damage_item(run[k - 1], events[((k - 1) \div items) + 1],
                             query_order[((k - 1) % items) + 1])
    IN  run[Len(events) * items]

(* The entities: two that take damage, and events may also name a third    *)
(* that has no TakesDamage.                                                *)
Hurtable == {"e1", "e2"}

HurtEvents ==
    { DamageEvent(v, a, d) : v \in Hurtable \cup {"e3"}, a \in {None, Some("e2")},
                             d \in 1 .. MaxDamage }

HurtBatches ==
    { <<e>> : e \in HurtEvents }
        \cup { <<DamageEvent("e1", None, 1), e>> : e \in HurtEvents }

TakesDamages ==
    { TakesDamage(1, 0, FALSE), TakesDamage(2, 0, FALSE), TakesDamage(1, MaxHealth, FALSE),
      TakesDamage(1, 0, TRUE) }

HurtInit ==
    /\ \E t1, t2 \in TakesDamages, h \in 1 .. MaxHealth :
          hurt = [bodies |-> ("e1" :> [health |-> MaxHealth, takes_damage |-> t1])
                             @@ ("e2" :> [health |-> h, takes_damage |-> t2]),
                  before |-> <<>>,
                  events |-> <<>>,
                  deaths |-> <<>>]
    /\ bvhs   = with_bvhs(PluginBvhs)
    /\ built  = [i \in 0 .. (PluginBvhs - 1) |-> NoBuild]
    /\ out    = NoQuery
    /\ swIn   = None
    /\ swOut  = None
    /\ ents   = <<>>
    /\ blocks = {}
    /\ order  = "physics_first"
    /\ pc     = "pre"
    /\ blockEvents  = <<>>
    /\ entityEvents = <<>>
    /\ passes = <<>>
    /\ sched  = NoSystems
    /\ fall   = NoFall
    /\ talk   = NoTalk
    /\ stops  = NoStop
    /\ chat   = NoChat
    /\ combat = NoCombat
    /\ build  = NoBuilding

(* damage_system on the DamageEvents of the tick. *)
DamageSystem(events, query_order) ==
    \E r \in { damage_system(events, hurt.bodies, query_order) } :
        hurt' = [bodies |-> r.bodies,
                 before |-> hurt.bodies,
                 events |-> events,
                 deaths |-> r.deaths]

HurtNext ==
    \E events \in HurtBatches, query_order \in Orderings(Hurtable) :
        DamageSystem(events, query_order) /\ UNCHANGED <<bvhVars, sweptVars, physVars, schedVars, stopVars, chatVars, combatVars, buildVars, talkVars, fallVars>>

SpecHurt == HurtInit /\ [][HurtNext]_vars

(* The victims of the events of the latest run, and the damage the events *)
(* up to the j-th name for an entity.                                      *)
RECURSIVE SumDamage(_, _)
SumDamage(victim, j) ==
    IF j = 0 THEN 0
    ELSE SumDamage(victim, j - 1)
            + (IF hurt.events[j].victim = victim THEN hurt.events[j].damage ELSE 0)

Victims == { hurt.events[i].victim : i \in DOMAIN hurt.events }

(* C38: a DamageEvent changes the Health of its victim only: the health    *)
(* of an entity no event of the run names is as before, and every          *)
(* DeathEvent names an entity whose health the damage brought to zero or   *)
(* below.                                                                  *)
C38_DamagesTheVictimOnly ==
    hurt.events # <<>> =>
        /\ \A e \in DOMAIN hurt.bodies :
              e \notin Victims => hurt.bodies[e].health = hurt.before[e].health
        /\ \A i \in DOMAIN hurt.deaths :
              LET victim == hurt.deaths[i].victim
              IN  /\ victim \in DOMAIN hurt.before
                  /\ hurt.before[victim].health > 0
                  /\ \E j \in DOMAIN hurt.events :
                        /\ hurt.events[j].victim = victim
                        /\ hurt.before[victim].health
                              - SumDamage(victim, j)
                                  * hurt.before[victim].takes_damage.damage_multiplier <= 0

(* One event for e1 has run: e2 has lost health too, and the DeathEvent    *)
(* sent for e2's death names e1, which is alive.                           *)
C38_Witness ==
    /\ Len(hurt.events) = 1
    /\ hurt.events[1].victim = "e1"
    /\ hurt.before["e2"].health > 0
    /\ hurt.before["e2"].health - hurt.events[1].damage
          * hurt.before["e2"].takes_damage.damage_multiplier <= 0
    /\ hurt.bodies["e2"].health = hurt.before["e2"].takes_damage.set_hp_after_death
    /\ hurt.before["e1"].health - hurt.events[1].damage
          * hurt.before["e1"].takes_damage.damage_multiplier > 0
    /\ hurt.deaths = <<DeathEvent("e1", hurt.events[1].attacker)>>


(***************************************************************************)
(* SpecFall: fall_damage_system, tick after tick, on an entity that the    *)
(* world moves between the ticks.  Heights are whole blocks.               *)
(***************************************************************************)
MaxFallY == 4

(* FallingStateConfig *)
FallingStateConfig(no_damage_distance, damage_per_block) ==
    [no_damage_distance |-> no_damage_distance, damage_per_block |-> damage_per_block]

(* FallingState::new, with the config given *)
FallingState_new(start_pos, falling_state_config) ==
    [fall_start |-> start_pos, falling |-> FALSE,
     falling_state_config |-> falling_state_config]

(* f64::max *)
max(a, b) == IF a >= b THEN a ELSE b

(* A landing that takes the distance as it is, not at least zero. *)
blocks_fallen_unclamped(fall_damage_state, position) ==
    fall_damage_state.fall_start[2] - position[2]

(* (fall_damage_state.fall_start.y - position.0.y).max(0.0) *)
blocks_fallen(fall_damage_state, position) ==
    max(fall_damage_state.fall_start[2] - position[2], 0)

(* The body of the loop of fall_damage_system for one entity: its new      *)
(* FallingState and the DamageEvents sent.                                 *)
fall_damage_system(entity, fall_damage_state, position, is_on_ground) ==
    LET config == fall_damage_state.falling_state_config
        fallen == blocks_fallen(fall_damage_state, position)
        damage == (fallen - config.no_damage_distance) * config.damage_per_block
    IN  IF is_on_ground
        THEN IF fall_damage_state.falling
             THEN [state  |-> [fall_damage_state EXCEPT !.falling = FALSE,
                                                        !.fall_start = position],
                   events |-> IF fallen > config.no_damage_distance /\ damage > 0
                              THEN <<DamageEvent(entity, None, damage)>>
                              ELSE <<>>]
             ELSE [state |-> fall_damage_state, events |-> <<>>]
        ELSE IF fall_damage_state.fall_start[2] <= position[2]
             THEN [state  |-> [fall_damage_state EXCEPT !.fall_start[2] = position[2]],
                   events |-> <<>>]
             ELSE [state  |-> [fall_damage_state EXCEPT !.falling = TRUE],
                   events |-> <<>>]

FallConfigs ==
    { FallingStateConfig(2, 1), FallingStateConfig(0, 2), FallingStateConfig(0, 0),
      FallingStateConfig(-2, 1) }

FallPositions == { <<x, y, 0>> : x \in {0, 1}, y \in 0 .. MaxFallY }

FallInit ==
    /\ \E start_pos \in FallPositions, config \in FallConfigs :
          fall = [position     |-> start_pos,
                  is_on_ground |-> TRUE,
                  state        |-> FallingState_new(start_pos, config),
                  before       |-> None,
                  events       |-> <<>>,
                  peak         |-> start_pos[2]]
    /\ bvhs   = with_bvhs(PluginBvhs)
    /\ built  = [i \in 0 .. (PluginBvhs - 1) |-> NoBuild]
    /\ out    = NoQuery
    /\ swIn   = None
    /\ swOut  = None
    /\ ents   = <<>>
    /\ blocks = {}
    /\ order  = "physics_first"
    /\ pc     = "pre"
    /\ blockEvents  = <<>>
    /\ entityEvents = <<>>
    /\ passes = <<>>
    /\ sched  = NoSystems
    /\ hurt   = NoHurt
    /\ talk   = NoTalk
    /\ stops  = NoStop
    /\ chat   = NoChat
    /\ combat = NoCombat
    /\ build  = NoBuilding

(* A tick: the world has put the entity at position, on a block or not,    *)
(* and fall_damage_system runs.  peak is the greatest height the entity    *)
(* had since it was last seen on the ground, that height included; before  *)
(* keeps what the run started from.                                        *)
FallTick(position, is_on_ground) ==
    \E r \in { fall_damage_system("e1", fall.state, position, is_on_ground) } :
        fall' = [position     |-> position,
                 is_on_ground |-> is_on_ground,
                 state        |-> r.state,
                 before       |-> Some([state |-> fall.state, peak |-> fall.peak,
                                        is_on_ground |-> fall.is_on_ground]),
                 events       |-> r.events,
                 peak         |-> IF is_on_ground THEN position[2]
                                  ELSE max(fall.peak, position[2])]

FallNext ==
    \E position \in FallPositions, is_on_ground \in BOOLEAN :
        FallTick(position, is_on_ground) /\ UNCHANGED <<bvhVars, sweptVars, physVars, schedVars, stopVars, chatVars, combatVars, buildVars, talkVars, hurtVars>>

SpecFall == FallInit /\ [][FallNext]_vars


(* What the latest tick started from. *)
Was == fall.before.val.state

Landed == fall.before.some /\ fall.is_on_ground /\ Was.falling

(* C33 as stated: a DamageEvent is sent only in a tick in which the entity *)
(* is on the ground and was falling, and only when fall_start.y minus      *)
(* position.y is more than no_damage_distance; its damage is that          *)
(* difference minus no_damage_distance, times damage_per_block, and its    *)
(* attacker None; after the landing falling is false and fall_start the    *)
(* landing position; a fall gives at most one DamageEvent.                 *)
C33_DamageOnLandingOnly ==
    fall.before.some =>
        LET config == Was.falling_state_config
            fallen == Was.fall_start[2] - fall.position[2]
        IN  /\ Len(fall.events) <= 1
            /\ fall.events # <<>> =>
                  /\ Landed
                  /\ fallen > config.no_damage_distance
                  /\ fall.events[1] =
                        [victim |-> "e1", attacker |-> None,
                         damage |-> (fallen - config.no_damage_distance)
                                       * config.damage_per_block]
            /\ Landed => ~fall.state.falling /\ fall.state.fall_start = fall.position

(* C33, amended: the same with the difference taken as zero when the       *)
(* entity lands above fall_start.                                          *)
C33_DamageOnLandingClamped ==
    fall.before.some =>
        LET config == Was.falling_state_config
            fallen == IF Was.fall_start[2] > fall.position[2]
                      THEN Was.fall_start[2] - fall.position[2] ELSE 0
        IN  /\ Len(fall.events) <= 1
            /\ fall.events # <<>> =>
                  /\ Landed
                  /\ fallen > config.no_damage_distance
                  /\ fall.events[1] =
                        [victim |-> "e1", attacker |-> None,
                         damage |-> (fallen - config.no_damage_distance)
                                       * config.damage_per_block]
            /\ Landed => ~fall.state.falling /\ fall.state.fall_start = fall.position

(* The entity has landed below where its fall began, further than          *)
(* no_damage_distance, and a DamageEvent was sent.                         *)
C33_Witness ==
    /\ Landed
    /\ Was.fall_start[2] - fall.position[2] > Was.falling_state_config.no_damage_distance
    /\ Was.falling_state_config.no_damage_distance > 0
    /\ Was.fall_start[1] # fall.position[1]
    /\ fall.events # <<>>
    /\ fall.events[1].damage > 0

(* C39: the distance of a fall is the greatest height the entity had since *)
(* it last left the ground, minus the height it lands at; height lost on   *)
(* the ground does not count, and an entity that stays on the ground gets  *)
(* no fall damage.                                                         *)
C39_DistanceFromPeak ==
    fall.before.some =>
        LET config   == Was.falling_state_config
            distance == IF fall.before.val.peak > fall.position[2]
                        THEN fall.before.val.peak - fall.position[2] ELSE 0
            damage   == (distance - config.no_damage_distance) * config.damage_per_block
        IN  /\ Landed =>
                  fall.events = IF distance > config.no_damage_distance /\ damage > 0
                                THEN <<[victim |-> "e1", attacker |-> None,
                                        damage |-> damage]>>
                                ELSE <<>>
            /\ fall.before.val.is_on_ground /\ fall.is_on_ground => fall.events = <<>>

(* The entity came down on the ground from where it had landed, left the   *)
(* ground there, and landed again: the damage is for the distance from the *)
(* old landing place.                                                      *)
C39_Witness ==
    /\ Landed
    /\ fall.before.val.peak < Was.fall_start[2]
    /\ fall.before.val.peak - fall.position[2] <= Was.falling_state_config.no_damage_distance
    /\ fall.position[2] <= fall.before.val.peak
    /\ fall.events # <<>>


(* An attack that combat_system, run on it alone now, would answer with a  *)
(* DamageEvent.                                                            *)
WouldHit(ev) ==
    /\ ev.interact = "Attack"
    /\ ev.client # ev.entity
    /\ {ev.client, ev.entity} \subseteq DOMAIN combat.players
    /\ combat_system(combat.players, combat.now, <<>>, <<>>, <<ev>>).damage # <<>>

(* C40: the attack events of a tick are processed one by one, each on its  *)
(* own: an event that is skipped changes no state and does not keep a      *)
(* later attack event of the tick from being processed.                    *)
C40_SkipKeepsLaterAttacks ==
    /\ combat.unread = <<>>
    /\ combat.damage = <<>> =>
          \A p \in DOMAIN combat.players :
              /\ combat.players[p].last_hit = 0 \/ combat.sent[p].some
              /\ combat.players[p].last_attack = combat.players[p].last_hit

(* The run returned at the attack of a player that holds nothing and left  *)
(* unread an attack of the other player that would have hit.               *)
C40_Witness ==
    /\ combat.unread # <<>>
    /\ combat.damage = <<>>
    /\ WouldHit(combat.unread[1])


-----------------------------------------------------------------------------
(* Where a tick leaves an entity among the blocks *)

(* The terrain hitbox of e when the tick began, free of every block or     *)
(* not, and the same box where the tick has put the entity.                *)
FreeOfBlocks(box) == \A c \in blocks : ~Sunk(box, c)

BoxAfterTick(e) ==
    translate(ColliderOf(ents[e]),
              [i \in Axes |-> ents'[e].position[i] - ents[e].position[i]])

(* C35: an entity whose terrain hitbox overlaps no solid block when the    *)
(* tick begins has, when the tick ends, a terrain hitbox at its new        *)
(* position that overlaps no solid block.                                  *)
C35_NoTunnelling ==
    [][PhysicsRuns =>
          \A e \in DOMAIN ents :
             (ents[e].block_collision_config.some /\ FreeOfBlocks(ColliderOf(ents[e])))
                => \A c \in blocks : ~Sunk(BoxAfterTick(e), c)]_vars


(* The entity ended the tick inside a block it was clear of: it came down  *)
(* onto the floor beside the block and went on sideways into it.           *)
C35_Witness ==
    /\ PhysicsDone
    /\ \E e \in DOMAIN ents :
          /\ ents[e].block_collision_config.some
          /\ FreeOfBlocks(ents[e].hitbox)
          /\ BlockEventsOf(blockEvents, e) # <<>>
          /\ \E c \in blocks : Sunk(translate(ents[e].shape, ents[e].position), c)

-----------------------------------------------------------------------------
(* The end of the resolution loop *)

(* The axes a velocity moves along. *)
Moving(velocity) == { i \in Axes : velocity[i] # 0 }

(* C34: every pass that finds a collision brings to 0 a component of the   *)
(* velocity that was not 0 and makes no component that was 0 other than 0, *)
(* so the number of components other than 0 goes down with every terrain   *)
(* event; when the loop ends, the last pass found no collision or the      *)
(* velocity is 0 on every axis.                                            *)
C34_PassesStopAxes ==
    [][PhysicsRuns =>
          \A e \in DOMAIN ents :
             ents[e].block_collision_config.some =>
                \E trace \in { PassTrace(e, LoopStart(e), MaxPasses) } :
                   /\ TraceOfRun(e, trace)
                   /\ \A k \in DOMAIN trace :
                         /\ Moving(trace[k].after.velocity)
                               \subseteq Moving(trace[k].before.velocity)
                         /\ Moving(trace[k].after.velocity)
                               # Moving(trace[k].before.velocity)
                         /\ Len(trace[k].after.events) = Len(trace[k].before.events) + 1
                   /\ Len(BlockEventsOf(blockEvents', e))
                         <= Cardinality(Moving(LoopStart(e).velocity))
                   /\ \/ ents'[e].velocity = ZERO
                      \/ /\ Len(trace) < MaxPasses
                         /\ potential_collisions(LoopEnd(e, trace).position,
                                                 velocity_delta(LoopEnd(e, trace).velocity),
                                                 ColliderOf(ents[e])) = {}]_vars

(* C34 witness: an entity that moved along all three axes has met blocks   *)
(* in three passes of a run, one axis stopped in each, and is at rest.     *)
C34_Witness ==
    /\ PhysicsDone
    /\ \E e \in DOMAIN ents :
          /\ ~ents[e].stop_on_block_collision.some
          /\ Len(BlockEventsOf(blockEvents, e)) = MaxPasses
          /\ \A k \in 1 .. MaxPasses :
                Cardinality(FacesOf(BlockEventsOf(blockEvents, e)[k].block_face_bitmap)) = 1
          /\ ents[e].velocity = ZERO


-----------------------------------------------------------------------------
(* The cells the broadphase looks at *)

(* The blocks the narrowphase would report for the first pass of e's run:  *)
(* those the swept test of e's terrain hitbox meets with a contact face.   *)
Reported(e) ==
    { c \in blocks :
        \E r \in { swept_aabb_collide(ColliderOf(ents[e]),
                                      velocity_delta(LoopStart(e).velocity), BlockAabb(c)) } :
            r.some /\ HasFace(r.val) }

(* C36: every solid cell the swept test would report with a contact face   *)
(* is one of the cells the broadphase enumerates.                          *)
C36_BroadphaseComplete ==
    [][PhysicsRuns =>
          \A e \in DOMAIN ents :
             ents[e].block_collision_config.some =>
                Reported(e) \subseteq
                   candidate_blocks(LoopStart(e).position,
                                    velocity_delta(LoopStart(e).velocity),
                                    ColliderOf(ents[e]))]_vars


(* C36 witness: an entity at x = -1.8 moving towards greater x has come    *)
(* down on the floor; the floor cell under the low end of its box, which   *)
(* the box was over and came down on as well, lies below the first cell of *)
(* the x range of the broadphase.                                          *)
C36_Witness ==
    /\ PhysicsDone
    /\ \E e \in DOMAIN ents :
          /\ ents[e].block_collision_config.some
          /\ ~ents[e].acceleration.some /\ ~ents[e].drag.some
          /\ ents[e].velocity[1] > 0
          /\ Len(BlockEventsOf(blockEvents, e)) = 1
          /\ BlockEventsOf(blockEvents, e)[1].block_face_bitmap = FaceBit("Up")
          /\ \E c \in blocks :
                /\ c[2] = BlockEventsOf(blockEvents, e)[1].block_pos[2]
                /\ \A i \in {1, 3} :
                      /\ ents[e].hitbox.min[i] < (c[i] + 1) * BlockSize
                      /\ ents[e].hitbox.max[i] > c[i] * BlockSize
                /\ c[1] < as_i32(ents[e].hitbox.min[1] - ents[e].shape.min[1])
                             - (Trunc(width(ents[e].hitbox, 1), 2 * BlockSize) + 1)

=============================================================================
